---- MODULE Spec2Model ----
(***************************************************************************)
(* Leftover scanner and cleaner of the uninstaller (src/core/scanner.py,   *)
(* src/core/cleaner.py, src/utils/backup.py), its snapshot comparison      *)
(* (src/core/monitor.py), background monitor                               *)
(* (src/core/background_monitor.py) and batch uninstaller                  *)
(* (src/core/batch_uninstaller.py) as a state machine.                     *)
(*                                                                         *)
(* A path is a sequence of name segments: the file d1\f2 is <<"d1","f2">>, *)
(* the registry path HKEY_LOCAL_MACHINE\k\a is                             *)
(* <<"HKEY_LOCAL_MACHINE","k","a">>.  An Optional value is <<>> (None) or  *)
(* <<x>>.  Where the code looks into a name (lower(), in, endswith) the    *)
(* name is a sequence of characters: "Acme" is <<"A","c","m","e">>.        *)
(***************************************************************************)
EXTENDS Integers, Sequences, FiniteSets, TLC

VARIABLES
  pr,      \* the calls of Cleaner._parse_registry_path under way
  fs,      \* the filesystem the cleaner deletes from: the set of existing paths
  reg,     \* the registry: for each physical store (view), the set of keys
  regcfg,  \* the machine: view redirection, the process's default view, ACLs
  cl,      \* for each call of Cleaner.clean(): its activation record
  fscfg,   \* the machine: the directories whose listing is denied, the
           \* entries and keys that fail when they are examined
  sc,      \* for each call of LeftoverScanner.scan(): its activation record
  scanners, \* for each LeftoverScanner object: its fields (self.leftovers)
  snap,    \* the call of SystemSnapshot.compare_filesystem() under way
  bg,      \* the BackgroundMonitor object, its loop threads and its caller
  batch    \* the call of BatchUninstaller.uninstall_multiple() under way

cleanVars == <<fs, reg, regcfg, cl>>
scanVars == <<fscfg, sc, scanners>>
otherVars == <<snap, bg, batch>>

(***************************************************************************)
(* Bounds of the model.                                                    *)
(***************************************************************************)
MaxLen == 3          \* longest leftover list handed to clean() (SpecClean, SpecInvalid, SpecSized)
MaxRegLen == 1       \* longest leftover list handed to clean() (SpecReg)
MaxRuns == 2         \* clean() is called at most this often on one list
MaxRestricted == 1   \* registry keys with a restrictive ACL
MaxPicks == 2        \* entries a scanned filesystem is built from (SpecScanFiles)
MaxKeyPicks == 1     \* keys each view of a scanned registry is built from (SpecScanReg)
MaxDenied == 1       \* directories whose listing is denied
MaxFaultPicks == 3   \* entries a scanned filesystem is built from (SpecScanFaults)
MaxFaults == 1       \* entries and keys that fail when they are examined
MaxFiles == 3        \* files of a snapshot (SpecCompare)
MaxThreads == 3      \* monitor loop threads ever started (SpecMonitor)
MaxPrograms == 3     \* programs of a batch (SpecBatch)
MaxFound == 2        \* leftovers one scan of a batch finds

Calls == {"c1", "c2"}

None == <<>>
Some(x) == <<x>>

Last(s) == s[Len(s)]
Front(s) == SubSeq(s, 1, Len(s) - 1)
IsPrefix(p, q) == Len(p) <= Len(q) /\ SubSeq(q, 1, Len(p)) = p

(***************************************************************************)
(* Leftover (scanner.py:19-26): type, path, size.  last_modified and       *)
(* description are never read by the cleaner.                              *)
(***************************************************************************)
Leftover(t, p, sz) == [type |-> t, path |-> p, size |-> sz]

LS1 == Leftover("shortcut", <<"s1">>, None)
LF1 == Leftover("file", <<"f1">>, Some(5))
LF2 == Leftover("file", <<"d1", "f2">>, None)
LD1 == Leftover("directory", <<"d1">>, Some(7))
LK == Leftover("registry", <<"HKEY_LOCAL_MACHINE", "k">>, None)
LKA == Leftover("registry", <<"HKEY_LOCAL_MACHINE", "k", "a">>, None)
LBad == Leftover("registry", <<"HKEY_BOGUS", "k">>, None)
LSvc == Leftover("service", <<"svc">>, None)
LSz == Leftover("shortcut", <<"s1">>, Some(3))
LKz == Leftover("registry", <<"HKEY_LOCAL_MACHINE", "k">>, Some(2))
LEmptySub == Leftover("registry", <<"HKEY_LOCAL_MACHINE", "">>, None)
LHiveOnly == Leftover("registry", <<"HKLM">>, None)
LLowerCase == Leftover("registry", <<"hklm", "k">>, None)

FsPaths == {<<"s1">>, <<"f1">>, <<"d1">>, <<"d1", "f2">>}

(***************************************************************************)
(* The registry.  On 64-bit Windows a redirected key has one physical key  *)
(* per view (store "v64", "v32"); a shared key, or any key on a 32-bit     *)
(* system, has one physical key whatever the view flag.  A key is          *)
(* <<hive, path>>.                                                         *)
(***************************************************************************)
Stores == {"v64", "v32"}
KeyPaths == {<<"k">>, <<"k", "a">>, <<"k", "a", "b">>, <<"k", "c">>}
RegKeys == {<<"hklm", p>> : p \in KeyPaths}
AclModes == {"nodelete", "readonly", "noaccess"}

\* The store a view flag resolves to on this machine.
Store(flag) ==
  IF ~regcfg.redirected THEN "v64"
  ELSE IF flag = "KEY_WOW64_64KEY" THEN "v64"
  ELSE IF flag = "KEY_WOW64_32KEY" THEN "v32"
  ELSE regcfg.defaultView

Mode(st, key) ==
  IF \E r \in regcfg.restricted : r.store = st /\ r.key = key
  THEN (CHOOSE r \in regcfg.restricted : r.store = st /\ r.key = key).mode
  ELSE "full"

\* The names of the subkeys of <<hive, path>> in store st of registry R.
SubkeyNames(R, st, hive, path) ==
  {Last(k[2]) : k \in {q \in R[st] : q[1] = hive /\ Len(q[2]) = Len(path) + 1
                                      /\ IsPrefix(path, q[2])}}

\* The registry lists subkeys in a fixed order.
NameOrder == <<"a", "b", "c", "k">>
NameRank(n) == CHOOSE i \in 1..Len(NameOrder) : NameOrder[i] = n

\* winreg.OpenKey(hive, path, 0, right | flag): "ok" or the error raised.
OpenKey(R, hive, path, right, flag) ==
  LET st == Store(flag)
      key == <<hive, path>>
  IN IF key \notin R[st] THEN "FileNotFoundError"
     ELSE IF Mode(st, key) = "noaccess" THEN "PermissionError"
     ELSE IF right = "KEY_ALL_ACCESS" /\ Mode(st, key) = "readonly"
       THEN "PermissionError"
     ELSE "ok"

\* winreg.EnumKey(key, 0) on a handle opened under flag: <<name>>, or <<>>
\* when it raises OSError (no more subkeys).
EnumKey0_NoSubkeys(R, hive, path, flag) == None

EnumKey0(R, hive, path, flag) ==
  LET names == SubkeyNames(R, Store(flag), hive, path)
  IN IF names = {} THEN None
     ELSE Some(CHOOSE n \in names : \A m \in names : NameRank(n) <= NameRank(m))

\* winreg.DeleteKeyEx(hive, path, access, 0): "ok" or the error raised.  The
\* system refuses to delete a key that still has subkeys.
DeleteKeyEx(R, hive, path, flag) ==
  LET st == Store(flag)
      key == <<hive, path>>
  IN IF key \notin R[st] THEN "FileNotFoundError"
     ELSE IF Mode(st, key) # "full" THEN "PermissionError"
     ELSE IF SubkeyNames(R, st, hive, path) # {} THEN "PermissionError"
     ELSE "ok"

(***************************************************************************)
(* BackupManager (utils/backup.py).  outcome is what the environment does  *)
(* to the call: "ok", "fail" (reg export returns non-zero), "error" (an    *)
(* exception inside the method).  The result says whether the call raised  *)
(* and, if not, what it returned.                                          *)
(***************************************************************************)
BackupOutcomes == {"ok", "fail", "error"}

backup_files_raises(file_paths, outcome) ==
  [raised |-> outcome # "ok", value |-> IF outcome = "ok" THEN Some("zip") ELSE None]

backup_files(file_paths, outcome) ==
  [raised |-> FALSE, value |-> IF outcome = "ok" THEN Some("zip") ELSE None]

backup_registry_key(hive, key_path, outcome) ==
  [raised |-> FALSE, value |-> IF outcome = "ok" THEN Some("reg") ELSE None]

(***************************************************************************)
(* Cleaner (core/cleaner.py).                                              *)
(***************************************************************************)
\* cleaner.py:78
DeleteOrder == <<"shortcut", "file", "directory", "registry">>

EmptyDict == [t \in {} |-> <<>>]

RECURSIVE GroupFrom(_, _, _)
GroupFrom(leftovers, i, grouped) ==
  IF i > Len(leftovers) THEN grouped
  ELSE LET l == leftovers[i]
           g == IF l.type \in DOMAIN grouped THEN grouped
                ELSE grouped @@ (l.type :> <<>>)
       IN GroupFrom(leftovers, i + 1, [g EXCEPT ![l.type] = Append(@, l)])

RECURSIVE GroupFromPrepend(_, _, _)
GroupFromPrepend(leftovers, i, grouped) ==
  IF i > Len(leftovers) THEN grouped
  ELSE LET l == leftovers[i]
           g == IF l.type \in DOMAIN grouped THEN grouped
                ELSE grouped @@ (l.type :> <<>>)
       IN GroupFromPrepend(leftovers, i + 1, [g EXCEPT ![l.type] = <<l>> \o @])

_group_by_type_prepend(leftovers) == GroupFromPrepend(leftovers, 1, EmptyDict)

_group_by_type(leftovers) == GroupFrom(leftovers, 1, EmptyDict)

Paths(ls) == [i \in 1..Len(ls) |-> ls[i].path]

\* cleaner.py:125-130: the paths handed to backup_files, <<>> when no call is due
file_paths_files_only(grouped) ==
  IF "file" \in DOMAIN grouped THEN Paths(grouped["file"]) ELSE <<>>

file_paths(grouped) ==
  (IF "file" \in DOMAIN grouped THEN Paths(grouped["file"]) ELSE <<>>)
  \o (IF "directory" \in DOMAIN grouped THEN Paths(grouped["directory"]) ELSE <<>>)

\* cleaner.py:371-382, in the order of the dict
hive_map == <<
  <<"HKEY_LOCAL_MACHINE", "hklm">>, <<"HKLM", "hklm">>,
  <<"HKEY_CURRENT_USER", "hkcu">>, <<"HKCU", "hkcu">>,
  <<"HKEY_CLASSES_ROOT", "hkcr">>, <<"HKCR", "hkcr">>,
  <<"HKEY_USERS", "hku">>, <<"HKU", "hku">>,
  <<"HKEY_CURRENT_CONFIG", "hkcc">>, <<"HKCC", "hkcc">> >>

\* key_path.startswith(hive_name + "\\"): the first segment is the hive name and
\* a backslash follows it
StartsWithHive(key_path, hive_name) ==
  Len(key_path) >= 2 /\ key_path[1] = hive_name

\* cleaner.py:361-389: (hive, path), or (None, None)
_parse_registry_path(key_path) ==
  LET hits == {i \in 1..Len(hive_map) : StartsWithHive(key_path, hive_map[i][1])}
  IN IF hits = {} THEN [hive |-> None, path |-> None]
     ELSE LET i == CHOOSE j \in hits : \A m \in hits : j <= m
          IN [hive |-> Some(hive_map[i][2]), path |-> Some(Tail(key_path))]

\* "not hive" alone: the path left after the hive name is not looked at.
Parsed_hive_only(p) == p.hive # None

\* "not hive or not path" (cleaner.py:148, 248): the path left after the hive
\* name is the empty string when the only segment left is empty
Parsed(p) == p.hive # None /\ p.path # None /\ p.path[1] # <<"">>

DeleteOutcomes == {"ok", "PermissionError", "OSError"}

\* What the filesystem may do to the removal of a leftover.
OutcomesFor(leftover) ==
  IF leftover.type = "directory" THEN DeleteOutcomes \cup {"partial"}
  ELSE DeleteOutcomes

\* cleaner.py:184-207 on filesystem F; outcome is what os.remove does
_delete_file_absent_fails(F, file_path, outcome) ==
  IF file_path \notin F THEN [ok |-> FALSE, err |-> "No such file", fs |-> F]
  ELSE IF outcome = "ok" THEN [ok |-> TRUE, err |-> "", fs |-> F \ {file_path}]
  ELSE [ok |-> FALSE, err |-> outcome, fs |-> F]

_delete_file(F, file_path, outcome) ==
  IF file_path \notin F THEN [ok |-> TRUE, err |-> "", fs |-> F]
  ELSE IF outcome = "ok" THEN [ok |-> TRUE, err |-> "", fs |-> F \ {file_path}]
  ELSE IF outcome = "PermissionError"
    THEN [ok |-> FALSE, err |-> "Permission denied", fs |-> F]
  ELSE [ok |-> FALSE, err |-> outcome, fs |-> F]

\* cleaner.py:209-232; shutil.rmtree removes the directory and all beneath it,
\* or fails at once, or fails after it has removed what is beneath ("partial")
_delete_directory(F, dir_path, outcome) ==
  IF dir_path \notin F THEN [ok |-> TRUE, err |-> "", fs |-> F]
  ELSE IF outcome = "ok"
    THEN [ok |-> TRUE, err |-> "", fs |-> {p \in F : ~IsPrefix(dir_path, p)}]
  ELSE IF outcome = "PermissionError"
    THEN [ok |-> FALSE, err |-> "Permission denied", fs |-> F]
  ELSE IF outcome = "partial"
    THEN [ok |-> FALSE, err |-> "OSError",
          fs |-> {p \in F : p = dir_path \/ ~IsPrefix(dir_path, p)}]
  ELSE [ok |-> FALSE, err |-> outcome, fs |-> F]

\* cleaner.py:169-182 for the kinds that do not touch the registry
_delete_item(F, leftover, outcome) ==
  IF leftover.type = "file" THEN _delete_file(F, leftover.path, outcome)
  ELSE IF leftover.type = "directory" THEN _delete_directory(F, leftover.path, outcome)
  ELSE IF leftover.type = "shortcut" THEN _delete_file(F, leftover.path, outcome)
  ELSE [ok |-> FALSE, err |-> "Unknown leftover type", fs |-> F]

\* cleaner.py:81-88: the result after one item's (success, error)
AccountDropsError(result, leftover, success, error) ==
  IF success
  THEN [result EXCEPT !.deleted_items = @ + 1,
                      !.size_freed = IF leftover.size # None /\ leftover.size[1] # 0
                                     THEN @ + leftover.size[1] ELSE @]
  ELSE [result EXCEPT !.failed_items = @ + 1]

Account(result, leftover, success, error) ==
  IF success
  THEN [result EXCEPT !.deleted_items = @ + 1,
                      !.size_freed = IF leftover.size # None /\ leftover.size[1] # 0
                                     THEN @ + leftover.size[1] ELSE @]
  ELSE [result EXCEPT !.failed_items = @ + 1,
                      !.errors = Append(@, <<leftover.path, error>>)]

\* A handle that stays open.
CloseKey_never(handles, h) == handles

\* The handle h of the open handles is closed: winreg.CloseKey, or the end of
\* a "with winreg.OpenKey(...) as key" block (cleaner.py:302, scanner.py:351).
CloseKey(handles, h) == handles \ {h}

\* cleaner.py:292-296
AccessFlags == <<"KEY_WOW64_64KEY", "KEY_WOW64_32KEY", "default">>

MinOf(S) == CHOOSE i \in S : \A j \in S : i <= j

\* cleaner.py:251-267: "absent" when the probe reports the key as not there,
\* "present" when the deletion is to be attempted
KeyProbe(R, hive, path) ==
  LET first == OpenKey(R, hive, path, "KEY_READ", "KEY_WOW64_64KEY")
  IN IF first = "ok" THEN "present"
     ELSE IF first = "FileNotFoundError" THEN "absent"
     ELSE IF OpenKey(R, hive, path, "KEY_READ", "default") = "FileNotFoundError"
       THEN "absent"
     ELSE "present"

\* The loop of cleaner.py:299 going on after a successful open: the last
\* access flag under which the key opens.
LastOpen(R, hive, path) ==
  LET ok == {i \in 1..Len(AccessFlags) :
               OpenKey(R, hive, path, "KEY_ALL_ACCESS", AccessFlags[i]) = "ok"}
  IN IF ok = {} THEN "none"
     ELSE AccessFlags[CHOOSE i \in ok : \A j \in ok : j <= i]

\* cleaner.py:298-323: the first access flag under which the key opens, "none"
\* when no flag opens it
FirstOpen(R, hive, path) ==
  LET ok == {i \in 1..Len(AccessFlags) :
               OpenKey(R, hive, path, "KEY_ALL_ACCESS", AccessFlags[i]) = "ok"}
  IN IF ok = {} THEN "none" ELSE AccessFlags[MinOf(ok)]

\* cleaner.py:327-346: the flag under which the key gets deleted, "none" when
\* every attempt, the last-resort winreg.DeleteKey included, fails
FirstDelete(R, hive, path) ==
  LET ok == {i \in 1..Len(AccessFlags) :
               DeleteKeyEx(R, hive, path, AccessFlags[i]) = "ok"}
  IN IF ok # {} THEN AccessFlags[MinOf(ok)]
     ELSE IF DeleteKeyEx(R, hive, path, "default") = "ok" THEN "default"
     ELSE "none"

(***************************************************************************)
(* One call of Cleaner.clean(leftovers) (cleaner.py:50-96) as an           *)
(* activation record: pc is the position in the code, (ti, ii) the         *)
(* position of the two for loops of lines 78-80, bi that of the loop of    *)
(* line 144, stack the activations of _delete_registry_key_recursive.      *)
(* log (the calls made), outcomes (what each delete call returned),        *)
(* removed (what left the machine), runs, absent_before, removed_before    *)
(* reg_before (the registry when the last registry delete call began) and  *)
(* regops (the keys handed to winreg.OpenKey and to the deletion of        *)
(* lines 328-346, with the number of the delete call they were made in)    *)
(* record what happened; the code never reads them.  handles is the set of *)
(* registry handles the call holds open.                                   *)
(***************************************************************************)
NewResult(leftovers) ==
  [total_items |-> Len(leftovers), deleted_items |-> 0, failed_items |-> 0,
   errors |-> <<>>, size_freed |-> 0]

Idle ==
  [pc |-> "idle", leftovers |-> <<>>, create_backup |-> FALSE,
   grouped |-> EmptyDict, result |-> NewResult(<<>>), ti |-> 1, ii |-> 1,
   bi |-> 1, stack |-> <<>>, log |-> <<>>, outcomes |-> <<>>, removed |-> <<>>,
   runs |-> 0, absent_before |-> FALSE, removed_before |-> <<>>,
   reg_before |-> [st \in Stores |-> {}], regops |-> {}, handles |-> {}]

Call(leftovers, create_backup) ==
  [Idle EXCEPT !.pc = "start", !.leftovers = leftovers,
               !.create_backup = create_backup]

\* The call s hands the key to the registry operation op.
RegOp(s, op, hive, path) ==
  [s EXCEPT !.regops = @ \cup {[call |-> Len(s.outcomes) + 1, op |-> op,
                                  key |-> <<hive, path>>]}]

Frame(hive, path) ==
  [hive |-> hive, path |-> path, flag |-> "none", phase |-> "open",
   failed |-> {}, again |-> FALSE]

\* The position at or after (ti, ii) that the loops of cleaner.py:78-80 visit
\* next; ti is past DeleteOrder when there is none.
RECURSIVE Seek(_, _, _)
Seek(grouped, ti, ii) ==
  IF ti > Len(DeleteOrder) THEN <<ti, 1>>
  ELSE IF DeleteOrder[ti] \in DOMAIN grouped /\ ii <= Len(grouped[DeleteOrder[ti]])
    THEN <<ti, ii>>
  ELSE Seek(grouped, ti + 1, 1)

Item(s) == s.grouped[DeleteOrder[s.ti]][s.ii]

\* Is the leftover gone: from the filesystem, or from every view of the registry.
Absent(l) ==
  IF l.type \in {"file", "directory", "shortcut"} THEN l.path \notin fs
  ELSE IF l.type = "registry"
    THEN LET p == _parse_registry_path(l.path)
         IN Parsed(p) /\ \A st \in Stores : <<p.hive[1], p.path[1]>> \notin reg[st]
  ELSE FALSE

AllAbsent(leftovers) == \A i \in 1..Len(leftovers) : Absent(leftovers[i])

\* cleaner.py:81-88 and the step of the for loops
AfterItem(s, leftover, success, error) ==
  LET pos == Seek(s.grouped, s.ti, s.ii + 1)
  IN [s EXCEPT !.result = Account(@, leftover, success, error),
               !.outcomes = Append(@, [item |-> leftover, ok |-> success,
                                       err |-> error]),
               !.ti = pos[1], !.ii = pos[2], !.pc = "delete"]

\* _delete_registry_key_recursive returns (success, error): to the loop of
\* line 305 of the activation that called it, or to clean()
Return(s, success, error) ==
  LET frame == Last(s.stack)
      rest == Front(s.stack)
  IN IF rest = <<>>
     THEN AfterItem([s EXCEPT !.stack = <<>>], Item(s), success, error)
     ELSE LET parent == Last(rest)
          IN [s EXCEPT !.stack = Append(Front(rest),
                [parent EXCEPT !.failed = IF success THEN @
                                          ELSE @ \cup {Last(frame.path)}])]

\* cleaner.py:60-74
Clean_Start(c) ==
  /\ cl[c].pc = "start"
  /\ LET s == cl[c]
         grouped == _group_by_type(s.leftovers)
         pos == Seek(grouped, 1, 1)
     IN cl' = [cl EXCEPT ![c] =
          [s EXCEPT !.result = NewResult(s.leftovers), !.grouped = grouped,
                    !.ti = pos[1], !.ii = pos[2], !.bi = 1,
                    !.log = <<>>, !.outcomes = <<>>, !.removed = <<>>,
                    !.regops = {},
                    !.runs = @ + 1,
                    !.absent_before = AllAbsent(s.leftovers),
                    !.pc = IF s.create_backup THEN "backup_files" ELSE "delete"]]
  /\ UNCHANGED <<fs, reg, regcfg, scanVars, pr, otherVars>>

\* cleaner.py:124-140; an exception of backup_files is caught nowhere in clean()
Clean_BackupFiles(c) ==
  /\ cl[c].pc = "backup_files"
  /\ LET s == cl[c]
         due == /\ "file" \in DOMAIN s.grouped \/ "directory" \in DOMAIN s.grouped
                /\ file_paths(s.grouped) # <<>>
     IN \E outcome \in (IF due THEN {"ok", "error"} ELSE {"ok"}) :
          LET r == backup_files(file_paths(s.grouped), outcome)
              called == [s EXCEPT !.log = Append(@,
                          [op |-> "backup_files", arg |-> file_paths(s.grouped),
                           ret |-> r.value])]
          IN cl' = [cl EXCEPT ![c] =
               IF ~due THEN [s EXCEPT !.pc = "backup_registry"]
               ELSE IF r.raised THEN [called EXCEPT !.pc = "raised"]
               ELSE [called EXCEPT !.pc = "backup_registry"]]
  /\ UNCHANGED <<fs, reg, regcfg, scanVars, pr, otherVars>>

\* cleaner.py:143-157, one turn of the loop
Clean_BackupRegistry(c) ==
  /\ cl[c].pc = "backup_registry"
  /\ LET s == cl[c]
         regs == IF "registry" \in DOMAIN s.grouped THEN s.grouped["registry"]
                 ELSE <<>>
     IN IF s.bi > Len(regs)
        THEN cl' = [cl EXCEPT ![c] = [s EXCEPT !.pc = "delete"]]
        ELSE LET p == _parse_registry_path(regs[s.bi].path)
             IN \E outcome \in (IF Parsed(p) THEN BackupOutcomes ELSE {"ok"}) :
                  cl' = [cl EXCEPT ![c] =
                    [s EXCEPT !.bi = @ + 1,
                              !.log = IF Parsed(p)
                                      THEN Append(@,
                                        [op |-> "backup_registry_key",
                                         arg |-> regs[s.bi].path,
                                         ret |-> backup_registry_key(
                                           p.hive[1], p.path[1], outcome).value])
                                      ELSE @]]
  /\ UNCHANGED <<fs, reg, regcfg, scanVars, pr, otherVars>>

\* cleaner.py:80-88 for a file, a directory or a shortcut
Clean_DeleteItem(c) ==
  /\ cl[c].pc = "delete"
  /\ cl[c].ti <= Len(DeleteOrder)
  /\ Item(cl[c]).type # "registry"
  /\ LET s == cl[c]
         leftover == Item(s)
     IN \E outcome \in OutcomesFor(leftover) :
          LET r == _delete_item(fs, leftover, outcome)
              called == [s EXCEPT !.log = Append(@, [op |-> "delete", arg |-> leftover]),
                                  !.removed = IF r.fs # fs
                                              THEN Append(@, <<"fs", leftover.path>>)
                                              ELSE @]
          IN /\ fs' = r.fs
             /\ cl' = [cl EXCEPT ![c] = AfterItem(called, leftover, r.ok, r.err)]
  /\ UNCHANGED <<reg, regcfg, scanVars, pr, otherVars>>

\* cleaner.py:244-270: _delete_registry_key up to the call of the recursion
Clean_DeleteRegistryKey(c) ==
  /\ cl[c].pc = "delete"
  /\ cl[c].ti <= Len(DeleteOrder)
  /\ Item(cl[c]).type = "registry"
  /\ LET s == cl[c]
         leftover == Item(s)
         p == _parse_registry_path(leftover.path)
         called == [s EXCEPT !.log = Append(@, [op |-> "delete", arg |-> leftover]),
                             !.reg_before = reg]
     IN cl' = [cl EXCEPT ![c] =
          IF ~Parsed(p) THEN AfterItem(called, leftover, FALSE, "Invalid registry path")
          ELSE LET probed == RegOp(called, "OpenKey", p.hive[1], p.path[1])
               IN IF KeyProbe(reg, p.hive[1], p.path[1]) = "absent"
                  THEN AfterItem(probed, leftover, TRUE, "")
                  ELSE [probed EXCEPT !.pc = "reg",
                                      !.stack = <<Frame(p.hive[1], p.path[1])>>]]
  /\ UNCHANGED <<fs, reg, regcfg, scanVars, pr, otherVars>>

\* cleaner.py:298-303 and 319-323: open the key under the first flag that works
Reg_Open(c) ==
  /\ cl[c].pc = "reg"
  /\ Last(cl[c].stack).phase = "open"
  /\ LET f == Last(cl[c].stack)
         s == RegOp(cl[c], "OpenKey", f.hive, f.path)
         flag == FirstOpen(reg, f.hive, f.path)
     IN cl' = [cl EXCEPT ![c] =
          IF flag = "none"
          THEN Return(s, FALSE, "Could not open registry key with any access level")
          ELSE [s EXCEPT !.stack[Len(s.stack)] =
                           [f EXCEPT !.flag = flag, !.phase = "enum"],
                         !.handles = @ \cup {<<f.hive, f.path>>}]]
  /\ UNCHANGED <<fs, reg, regcfg, scanVars, pr, otherVars>>

\* cleaner.py:305-318: one turn of the while loop
Reg_Enum(c) ==
  /\ cl[c].pc = "reg"
  /\ Last(cl[c].stack).phase = "enum"
  /\ LET s == cl[c]
         f == Last(s.stack)
         sub == EnumKey0(reg, f.hive, f.path, f.flag)
     IN cl' = [cl EXCEPT ![c] =
          IF sub = None
          THEN [s EXCEPT !.stack[Len(s.stack)] = [f EXCEPT !.phase = "del"],
                         !.handles = CloseKey(@, <<f.hive, f.path>>)]
          ELSE [s EXCEPT !.stack = Append(
                  [@ EXCEPT ![Len(s.stack)] =
                     [f EXCEPT !.again = @ \/ sub[1] \in f.failed]],
                  Frame(f.hive, Append(f.path, sub[1])))]]
  /\ UNCHANGED <<fs, reg, regcfg, scanVars, pr, otherVars>>

\* cleaner.py:325-359: delete the key itself and return
Reg_Delete(c) ==
  /\ cl[c].pc = "reg"
  /\ Last(cl[c].stack).phase = "del"
  /\ LET f == Last(cl[c].stack)
         s == RegOp(cl[c], "DeleteKey", f.hive, f.path)
         flag == FirstDelete(reg, f.hive, f.path)
         key == <<f.hive, f.path>>
     IN IF flag = "none"
        THEN /\ reg' = reg
             /\ cl' = [cl EXCEPT ![c] = Return(s, FALSE, "Could not delete registry key")]
        ELSE /\ reg' = [reg EXCEPT ![Store(flag)] = @ \ {key}]
             /\ cl' = [cl EXCEPT ![c] =
                  Return([s EXCEPT !.removed = Append(@, <<"reg", Store(flag), key>>)],
                         TRUE, "")]
  /\ UNCHANGED <<fs, regcfg, scanVars, pr, otherVars>>

\* cleaner.py:90-96
Clean_Finish(c) ==
  /\ cl[c].pc = "delete"
  /\ cl[c].ti > Len(DeleteOrder)
  /\ cl' = [cl EXCEPT ![c].pc = "done"]
  /\ UNCHANGED <<fs, reg, regcfg, scanVars, pr, otherVars>>

\* The caller calls clean() again on the same list.
Clean_Again(c) ==
  /\ cl[c].pc = "done"
  /\ cl[c].runs < MaxRuns
  /\ cl' = [cl EXCEPT ![c].pc = "start", ![c].removed_before = cl[c].removed]
  /\ UNCHANGED <<fs, reg, regcfg, scanVars, pr, otherVars>>

NextClean ==
  \E c \in Calls :
    \/ Clean_Start(c)
    \/ Clean_BackupFiles(c)
    \/ Clean_BackupRegistry(c)
    \/ Clean_DeleteItem(c)
    \/ Clean_DeleteRegistryKey(c)
    \/ Reg_Open(c)
    \/ Reg_Enum(c)
    \/ Reg_Delete(c)
    \/ Clean_Finish(c)
    \/ Clean_Again(c)

(***************************************************************************)
(* Strings as the scanner reads them (core/scanner.py).                    *)
(***************************************************************************)
Upper == <<"A", "B", "C", "D", "E", "F", "G", "H", "I", "J", "K", "L", "M",
           "N", "O", "P", "Q", "R", "S", "T", "U", "V", "W", "X", "Y", "Z">>
Lower == <<"a", "b", "c", "d", "e", "f", "g", "h", "i", "j", "k", "l", "m",
           "n", "o", "p", "q", "r", "s", "t", "u", "v", "w", "x", "y", "z">>

LowerChar(ch) ==
  IF \E i \in 1..Len(Upper) : Upper[i] = ch
  THEN Lower[CHOOSE i \in 1..Len(Upper) : Upper[i] = ch]
  ELSE ch

\* str.lower()
ToLower(str) == [i \in 1..Len(str) |-> LowerChar(str[i])]

\* pattern in str
Contains(str, pattern) ==
  \E i \in 0..(Len(str) - Len(pattern)) : SubSeq(str, i + 1, i + Len(pattern)) = pattern

\* str.endswith(suffix)
EndsWith(str, suffix) ==
  Len(suffix) <= Len(str)
  /\ SubSeq(str, Len(str) - Len(suffix) + 1, Len(str)) = suffix

IsSpace(ch) == ch \in {" ", "\t", "\n", "\r", "\f"}
IsDigit(ch) == ch \in {"0", "1", "2", "3", "4", "5", "6", "7", "8", "9"}

\* The first position from i on that holds no space / no digit.
RECURSIVE SpacesEnd(_, _)
SpacesEnd(str, i) ==
  IF i <= Len(str) /\ IsSpace(str[i]) THEN SpacesEnd(str, i + 1) ELSE i

RECURSIVE DigitsEnd(_, _)
DigitsEnd(str, i) ==
  IF i <= Len(str) /\ IsDigit(str[i]) THEN DigitsEnd(str, i + 1) ELSE i

\* (\.\d+)* from position i: the position after its longest match
GroupsEnd_none(str, i) == i

RECURSIVE GroupsEnd(_, _)
GroupsEnd(str, i) ==
  IF i <= Len(str) /\ str[i] = "." /\ DigitsEnd(str, i + 1) > i + 1
  THEN GroupsEnd(str, DigitsEnd(str, i + 1))
  ELSE i

\* \s+\d+(\.\d+)* at position i: the position after the match, 0 for no match
MatchVersion(str, i) ==
  LET a == SpacesEnd(str, i)
      b == DigitsEnd(str, a)
  IN IF a > i /\ b > a THEN GroupsEnd(str, b) ELSE 0

\* scanner.py:127: re.sub(r'\s+\d+(\.\d+)*', '', str)
RECURSIVE SubFrom(_, _)
SubFrom(str, i) ==
  IF i > Len(str) THEN <<>>
  ELSE IF MatchVersion(str, i) > 0 THEN SubFrom(str, MatchVersion(str, i))
  ELSE <<str[i]>> \o SubFrom(str, i + 1)

StripVersions(str) == SubFrom(str, 1)

\* scanner.py:111-139; the list the code returns has no order that matters
_generate_search_patterns(program) ==
  LET name == IF program.name # <<>>
              THEN {ToLower(program.name)}
                   \cup (IF ToLower(StripVersions(program.name)) # ToLower(program.name)
                         THEN {ToLower(StripVersions(program.name))} ELSE {})
              ELSE {}
      publisher == IF program.publisher # <<>> THEN {ToLower(program.publisher)}
                   ELSE {}
  IN {p \in name \cup publisher : Len(p) >= 3}

\* any(pattern in name.lower() for pattern in patterns)
Matches_all(name, patterns) == \A p \in patterns : Contains(ToLower(name), p)

Matches(name, patterns) == \E p \in patterns : Contains(ToLower(name), p)


(***************************************************************************)
(* Cleaner._parse_registry_path on the string itself (cleaner.py:361-389): *)
(* a registry path is a sequence of characters, "\\" is the backslash.     *)
(* _parse_registry_path above is the same function on a path given as its  *)
(* backslash-separated segments.                                           *)
(***************************************************************************)
\* cleaner.py:371-382, in the order of the dict
hive_map_items == <<
  <<<<"H", "K", "E", "Y", "_", "L", "O", "C", "A", "L", "_", "M", "A", "C", "H", "I", "N", "E">>, "hklm">>,
  <<<<"H", "K", "L", "M">>, "hklm">>,
  <<<<"H", "K", "E", "Y", "_", "C", "U", "R", "R", "E", "N", "T", "_", "U", "S", "E", "R">>, "hkcu">>,
  <<<<"H", "K", "C", "U">>, "hkcu">>,
  <<<<"H", "K", "E", "Y", "_", "C", "L", "A", "S", "S", "E", "S", "_", "R", "O", "O", "T">>, "hkcr">>,
  <<<<"H", "K", "C", "R">>, "hkcr">>,
  <<<<"H", "K", "E", "Y", "_", "U", "S", "E", "R", "S">>, "hku">>,
  <<<<"H", "K", "U">>, "hku">>,
  <<<<"H", "K", "E", "Y", "_", "C", "U", "R", "R", "E", "N", "T", "_", "C", "O", "N", "F", "I", "G">>, "hkcc">>,
  <<<<"H", "K", "C", "C">>, "hkcc">> >>

\* str.startswith(prefix)
StartsWith(str, prefix) ==
  Len(prefix) <= Len(str) /\ SubSeq(str, 1, Len(prefix)) = prefix

\* _parse_registry_path with startswith(hive_name): no backslash asked for.
parse_registry_path_no_separator(key_path) ==
  LET hits == {i \in 1..Len(hive_map_items) : StartsWith(key_path, hive_map_items[i][1])}
  IN IF hits = {} THEN [hive |-> None, path |-> None]
     ELSE LET i == CHOOSE j \in hits : \A m \in hits : j <= m
              n == Len(hive_map_items[i][1])
          IN [hive |-> Some(hive_map_items[i][2]),
              path |-> Some(SubSeq(key_path, n + 2, Len(key_path)))]

\* _parse_registry_path with key_path[len(hive_name):]: the backslash stays in
\* the path.
parse_registry_path_keeps_separator(key_path) ==
  LET hits == {i \in 1..Len(hive_map_items) :
                 StartsWith(key_path, hive_map_items[i][1] \o <<"\\">>)}
  IN IF hits = {} THEN [hive |-> None, path |-> None]
     ELSE LET i == CHOOSE j \in hits : \A m \in hits : j <= m
              n == Len(hive_map_items[i][1])
          IN [hive |-> Some(hive_map_items[i][2]),
              path |-> Some(SubSeq(key_path, n + 1, Len(key_path)))]

\* cleaner.py:384-389: the first hive name of the dict that the string starts
\* with, followed by a backslash; the path is what follows the backslash
parse_registry_path(key_path) ==
  LET hits == {i \in 1..Len(hive_map_items) :
                 StartsWith(key_path, hive_map_items[i][1] \o <<"\\">>)}
  IN IF hits = {} THEN [hive |-> None, path |-> None]
     ELSE LET i == CHOOSE j \in hits : \A m \in hits : j <= m
              n == Len(hive_map_items[i][1])
          IN [hive |-> Some(hive_map_items[i][2]),
              path |-> Some(SubSeq(key_path, n + 2, Len(key_path)))]

\* cleaner.py:248: "not hive or not path"
invalid_registry_path(p) == p.hive = None \/ p.path = None \/ p.path = Some(<<>>)

\* cleaner.py:391-400
get_hive_name(hive) ==
  IF hive = "hklm" THEN hive_map_items[1][1]
  ELSE IF hive = "hkcu" THEN hive_map_items[3][1]
  ELSE IF hive = "hkcr" THEN hive_map_items[5][1]
  ELSE IF hive = "hku" THEN hive_map_items[7][1]
  ELSE IF hive = "hkcc" THEN hive_map_items[9][1]
  ELSE <<"U", "N", "K", "N", "O", "W", "N">>

\* One call of _parse_registry_path(key_path).
ParseIdle == [pc |-> "idle", key_path |-> <<>>, result |-> [hive |-> None, path |-> None]]

ParseCall(key_path) == [ParseIdle EXCEPT !.pc = "call", !.key_path = key_path]

Parse_Call(c) ==
  /\ pr[c].pc = "call"
  /\ pr' = [pr EXCEPT ![c].pc = "done",
                      ![c].result = parse_registry_path(pr[c].key_path)]
  /\ UNCHANGED <<fs, reg, regcfg, cl, fscfg, sc, scanners, otherVars>>

NextParse == \E c \in Calls : Parse_Call(c)

(***************************************************************************)
(* The machine scan() reads.  Names of the scanned universe: a name with a *)
(* dot is a file, any other name a directory.                              *)
(***************************************************************************)
nAcme == <<"A", "c", "m", "e">>
nAcmeLog == <<"a", "c", "m", "e", ".", "l", "o", "g">>
nLib == <<"l", "i", "b">>
nAcmeLnk == <<"A", "c", "m", "e", ".", "L", "N", "K">>
nLibLnk == <<"l", "i", "b", ".", "l", "n", "k">>
nMicrosoft == <<"M", "i", "c", "r", "o", "s", "o", "f", "t">>
nWindows == <<"W", "i", "n", "d", "o", "w", "s">>
nStartMenu == <<"S", "t", "a", "r", "t", " ", "M", "e", "n", "u">>
nPrograms == <<"P", "r", "o", "g", "r", "a", "m", "s">>
nDesktop == <<"D", "e", "s", "k", "t", "o", "p">>
nSoftware == <<"S", "o", "f", "t", "w", "a", "r", "e">>
nWow6432Node == <<"W", "o", "w", "6", "4", "3", "2", "N", "o", "d", "e">>
dotLnk == <<".", "l", "n", "k">>

\* The directories the environment variables name.
PF == << <<"P", "F">> >>
PF86 == << <<"P", "F", "8", "6">> >>
LO == << <<"L", "O">> >>
RO == << <<"R", "O">> >>
PD == << <<"P", "D">> >>
UP == << <<"U", "P">> >>

\* os.environ: a variable that is not set is <<>>
environ ==
  [ProgramFiles |-> PF, ProgramFilesX86 |-> PF86, ProgramW6432 |-> PF,
   LOCALAPPDATA |-> LO, APPDATA |-> RO, ProgramData |-> PD, USERPROFILE |-> UP]

\* system_info.py:90-111, as the set the tuple is built from
get_program_files_paths ==
  {environ.ProgramFiles, environ.ProgramFilesX86, environ.ProgramW6432} \ {<<>>}

\* system_info.py:114-125
get_appdata_paths ==
  [local |-> environ.LOCALAPPDATA, roaming |-> environ.APPDATA,
   program_data |-> environ.ProgramData]

\* system_info.py:128-141
get_user_directories ==
  [desktop |-> environ.USERPROFILE \o <<nDesktop>>,
   start_menu |-> environ.APPDATA \o <<nMicrosoft, nWindows, nStartMenu>>,
   programs |-> environ.APPDATA \o <<nMicrosoft, nWindows, nStartMenu, nPrograms>>]

\* scanner.py:414
start_menu_common == PD \o <<nMicrosoft, nWindows, nStartMenu, nPrograms>>

IsFileName(name) == \E i \in 1..Len(name) : name[i] = "."

exists(F, path) == path \in F
is_file(F, path) == path \in F /\ IsFileName(Last(path))
is_dir(F, path) == path \in F /\ ~IsFileName(Last(path))

Children(F, dir) == {q \in F : Len(q) = Len(dir) + 1 /\ IsPrefix(dir, q)}

\* Path.iterdir() / os.scandir(): the entries, or the error raised
iterdir(F, dir) ==
  IF ~is_dir(F, dir) THEN [err |-> "FileNotFoundError", items |-> {}]
  ELSE IF dir \in fscfg.denied THEN [err |-> "PermissionError", items |-> {}]
  ELSE [err |-> "", items |-> Children(F, dir)]

\* stat().st_size of a file of the universe
st_size(path) == Len(Last(path))

RECURSIVE SumSizes(_)
SumSizes(files) ==
  IF files = {} THEN 0
  ELSE LET f == CHOOSE x \in files : TRUE
       IN st_size(f) + SumSizes(files \ {f})

\* What Path.rglob('*') reaches beneath dir: it passes over a directory it may
\* not list.
Reached(F, dir) ==
  {q \in F : /\ Len(q) > Len(dir)
             /\ IsPrefix(dir, q)
             /\ \A n \in Len(dir)..(Len(q) - 1) : SubSeq(q, 1, n) \notin fscfg.denied}

\* scanner.py:256-285
_get_directory_size(F, dir) == SumSizes({q \in Reached(F, dir) : is_file(F, q)})

(***************************************************************************)
(* Access failures.  fscfg.faults names entries that are listed by their   *)
(* directory but fail when they are examined:                              *)
(*   "PermissionError"    is_file() / is_dir() raise PermissionError       *)
(*   "OSError"            is_file() / is_dir() raise another OSError       *)
(*   "FileNotFoundError"  the entry vanished: is_file() and is_dir() are   *)
(*                        False (pathlib swallows ENOENT)                  *)
(*   "stat"               a file whose stat() raises OSError after         *)
(*                        is_file() answered True                          *)
(*   "Unexpected"         examining the entry raises an exception that is  *)
(*                        not an OSError                                   *)
(* fscfg.keyfaults names registry keys whose OpenKey raises an exception   *)
(* that is not an OSError.                                                 *)
(***************************************************************************)
FaultKinds == {"PermissionError", "OSError", "FileNotFoundError", "stat", "Unexpected"}

Raising == {"PermissionError", "OSError", "Unexpected"}

\* scanner.py:238-254: does an exception of this kind pass the handlers of
\* _scan_directory (PermissionError, FileNotFoundError, OSError)
propagates_oserror(kind) == kind \in {"Unexpected", "OSError"}

propagates(kind) == kind = "Unexpected"

FaultAt(path) ==
  IF \E f \in fscfg.faults : f.path = path
  THEN (CHOOSE f \in fscfg.faults : f.path = path).kind
  ELSE ""

\* scanner.py:256-285 under access failures: what _get_directory_size may
\* return, or the exception that leaves it.  is_file() is called outside the
\* inner try, so the first entry on which it raises ends the walk with the sum
\* reached so far; the order of rglob is not fixed.
directory_sizes(F, dir) ==
  LET inside == {FaultAt(q) : q \in Reached(F, dir)} \cap Raising
      files == {q \in Reached(F, dir) : is_file(F, q) /\ FaultAt(q) = ""}
  IN IF inside = {} THEN {[raises |-> "", size |-> SumSizes(files)]}
     ELSE {[raises |-> IF k = "Unexpected" THEN k ELSE "", size |-> SumSizes(T)] :
             k \in inside, T \in SUBSET files}

\* scanner.py:168, 325: max_depth=2
max_depth == 2

\* scanner.py:204-237: is the entry recursed into
\* the recursion of line 236 with "current_depth <= max_depth"
descend_dir_deeper(matched, isdir, current_depth) ==
  ~matched /\ isdir /\ current_depth <= max_depth

descend_dir_matched(matched, isdir, current_depth) ==
  isdir /\ current_depth < max_depth

descend_dir(matched, isdir, current_depth) ==
  ~(matched /\ isdir) /\ isdir /\ current_depth < max_depth

\* scanner.py:360-374: is the subkey recursed into
descend_key_matched(matched, current_depth) == current_depth < max_depth

descend_key(matched, current_depth) == ~matched /\ current_depth < max_depth

(***************************************************************************)
(* The registry as scan() reads it: winreg.OpenKey(hive, key_path) with no *)
(* view flag.  HKEY_CURRENT_USER\Software is shared by the views; under    *)
(* redirection HKEY_LOCAL_MACHINE\Software\Wow6432Node names the 32-bit     *)
(* HKEY_LOCAL_MACHINE\Software and is listed among the subkeys of          *)
(* HKEY_LOCAL_MACHINE\Software.                                            *)
(***************************************************************************)
IsWow(hive, key_path) ==
  /\ regcfg.redirected
  /\ hive = "hklm"
  /\ Len(key_path) >= 2
  /\ key_path[1] = nSoftware
  /\ key_path[2] = nWow6432Node

\* The store and the path in it that (hive, key_path) names.
Physical(hive, key_path) ==
  IF hive = "hkcu" THEN [store |-> "v64", path |-> key_path]
  ELSE IF IsWow(hive, key_path)
    THEN [store |-> "v32",
          path |-> <<nSoftware>> \o SubSeq(key_path, 3, Len(key_path))]
  ELSE [store |-> Store("default"), path |-> key_path]

\* winreg.OpenKey(hive, key_path): "ok" or the error raised
OpenKeyDefault(R, hive, key_path) ==
  LET ph == Physical(hive, key_path)
  IN IF <<hive, ph.path>> \notin R[ph.store] THEN "FileNotFoundError"
     ELSE IF Mode(ph.store, <<hive, ph.path>>) = "noaccess" THEN "PermissionError"
     ELSE "ok"

ScanNameOrder == <<nAcme, nLib, nWow6432Node>>
ScanNameRank(n) == CHOOSE i \in 1..Len(ScanNameOrder) : ScanNameOrder[i] = n

\* The subkey names of an open key, in the order the registry lists them.
ListedSubkeys(R, hive, key_path) ==
  LET ph == Physical(hive, key_path)
      names == SubkeyNames(R, ph.store, hive, ph.path)
               \cup (IF regcfg.redirected /\ hive = "hklm" /\ key_path = <<nSoftware>>
                     THEN {nWow6432Node} ELSE {})
  IN names

\* winreg.EnumKey(key, index): <<name>>, or <<>> when it raises OSError
EnumKey(R, hive, key_path, index) ==
  LET names == ListedSubkeys(R, hive, key_path)
      At(n) == Cardinality({m \in names : ScanNameRank(m) < ScanNameRank(n)})
  IN IF index >= Cardinality(names) THEN None
     ELSE Some(CHOOSE n \in names : At(n) = index)

\* _get_hive_name answering with the short names of the hives.
_get_hive_name_alias(hive) ==
  IF hive = "hklm" THEN <<"H", "K", "L", "M">>
  ELSE IF hive = "hkcu" THEN <<"H", "K", "C", "U">>
  ELSE <<"U", "N", "K", "N", "O", "W", "N">>

\* scanner.py:385-394
_get_hive_name(hive) ==
  IF hive = "hklm"
  THEN <<"H", "K", "E", "Y", "_", "L", "O", "C", "A", "L", "_",
         "M", "A", "C", "H", "I", "N", "E">>
  ELSE IF hive = "hkcu"
  THEN <<"H", "K", "E", "Y", "_", "C", "U", "R", "R", "E", "N", "T", "_",
         "U", "S", "E", "R">>
  ELSE <<"U", "N", "K", "N", "O", "W", "N">>

\* scanner.py:317-321
registry_paths ==
  << <<"hklm", <<nSoftware>>>>, <<"hkcu", <<nSoftware>>>>,
     <<"hklm", <<nSoftware, nWow6432Node>>>> >>

(***************************************************************************)
(* One call of LeftoverScanner.scan(program, ...) (scanner.py:69-109) on   *)
(* the scanner object obj.  pc is the pass the call is in, stack the       *)
(* activations of _scan_directory, of _scan_registry_key or of os.walk,    *)
(* ri, bi and si the positions of the loops of lines 166, 323 and 418.     *)
(* listed, opened and walked (the directories of the file pass, the keys   *)
(* and the directories of the shortcut pass whose entries were enumerated, *)
(* with the scan root or base key and the depth) and found (what was       *)
(* recorded, with the scan root or base key) and aborted (the scan roots   *)
(* and base keys whose walk an exception ended) record what happened; the  *)
(* code never reads them.  handles is the set of registry handles the call *)
(* holds open.                                                             *)
(***************************************************************************)
Objs == {"o1", "o2"}

NoProgram == [name |-> <<>>, publisher |-> <<>>]

ScanIdle ==
  [pc |-> "idle", obj |-> "o1", program |-> NoProgram, scan_files |-> FALSE,
   scan_registry |-> FALSE, scan_shortcuts |-> FALSE, patterns |-> {},
   roots |-> <<>>, sdirs |-> <<>>, ri |-> 1, bi |-> 1, si |-> 1,
   stack |-> <<>>, result |-> <<>>, listed |-> {}, opened |-> {}, walked |-> {},
   found |-> <<>>, aborted |-> {}, handles |-> {}]

ScanCall(obj, program, files, registry, shortcuts) ==
  [ScanIdle EXCEPT !.pc = "start", !.obj = obj, !.program = program,
                   !.scan_files = files, !.scan_registry = registry,
                   !.scan_shortcuts = shortcuts]

\* The sequences that list the set S once each.
Orders(S) ==
  {f \in [1..Cardinality(S) -> S] : \A i, j \in 1..Cardinality(S) : f[i] = f[j] => i = j}

\* scanner.py:152-163: scan_dirs, the program-files paths in the order pf
scan_dirs(F, pf) ==
  LET appdata == <<get_appdata_paths.local, get_appdata_paths.roaming,
                   get_appdata_paths.program_data>>
      Present(d) == d # <<>> /\ exists(F, d)
  IN SelectSeq(pf, Present) \o SelectSeq(appdata, Present)

\* scanner.py:406-416
shortcut_dirs(F) ==
  <<get_user_directories.desktop, get_user_directories.start_menu,
    get_user_directories.programs>>
  \o (IF exists(F, start_menu_common) THEN <<start_menu_common>> ELSE <<>>)

\* scanner.py:94-109: the pass that follows pass p
PassAfter(s, p) ==
  IF p = "start" /\ s.scan_files THEN "files"
  ELSE IF p \in {"start", "files"} /\ s.scan_registry THEN "registry"
  ELSE IF p # "shortcuts" /\ s.scan_shortcuts THEN "shortcuts"
  ELSE "return"

\* The call enters the pass after p; a pass starts with its list of places.
Enter(s, p, pf) ==
  LET next == PassAfter(s, p)
  IN [s EXCEPT !.pc = next,
               !.roots = IF next = "files" THEN scan_dirs(fs, pf) ELSE @,
               !.sdirs = IF next = "shortcuts" THEN shortcut_dirs(fs) ELSE @,
               !.ri = 1, !.bi = 1, !.si = 1, !.stack = <<>>]

DirFrame(dir, depth, items) == [dir |-> dir, depth |-> depth, todo |-> items]

\* An exception leaves the "with" blocks of the activations on the stack, the
\* innermost first: each closes its handle.
RECURSIVE UnwindKeys(_, _)
UnwindKeys(handles, stack) ==
  IF stack = <<>> THEN handles
  ELSE UnwindKeys(CloseKey(handles, <<Last(stack).hive, Last(stack).key_path>>),
                  Front(stack))

KeyFrame(hive, key_path, depth) ==
  [hive |-> hive, key_path |-> key_path, depth |-> depth, index |-> 0]

WalkFrame(F, dir) ==
  [dir |-> dir, files |-> {q \in Children(F, dir) : is_file(F, q)},
   dirs |-> {q \in Children(F, dir) : is_dir(F, q)}]

\* self.leftovers.append(leftover) by the call s, in the unit (scan root, base
\* key or shortcut directory) numbered unit
Recorded(s, leftover, unit) ==
  [s EXCEPT !.found = Append(@, [item |-> leftover, unit |-> unit])]

\* scanner.py:88-92
Scan_Start(c) ==
  /\ sc[c].pc = "start"
  /\ \E pf \in Orders(get_program_files_paths) :
       sc' = [sc EXCEPT ![c] =
         Enter([sc[c] EXCEPT !.patterns = _generate_search_patterns(sc[c].program),
                             !.listed = {}, !.opened = {}, !.walked = {},
                             !.found = <<>>, !.aborted = {}],
               "start", pf)]
  /\ scanners' = [scanners EXCEPT ![sc[c].obj].leftovers = <<>>]
  /\ UNCHANGED <<fs, reg, regcfg, cl, fscfg, pr, otherVars>>

\* scanner.py:166-177, one turn of the loop: the call of _scan_directory on a
\* scan root up to its listing (scanner.py:195-199)
Scan_Root(c) ==
  /\ sc[c].pc = "files"
  /\ sc[c].stack = <<>>
  /\ LET s == sc[c]
     IN IF s.ri > Len(s.roots)
        THEN sc' = [sc EXCEPT ![c] = Enter(s, "files", <<>>)]
        ELSE LET dir == s.roots[s.ri]
                 ls == iterdir(fs, dir)
             IN sc' = [sc EXCEPT ![c] =
                  IF ls.err # "" THEN [s EXCEPT !.ri = @ + 1]
                  ELSE [s EXCEPT !.ri = @ + 1,
                                 !.stack = <<DirFrame(dir, 0, ls.items)>>,
                                 !.listed = @ \cup {[unit |-> s.ri, at |-> dir,
                                                     depth |-> 0]}]]
  /\ UNCHANGED <<fs, reg, regcfg, cl, fscfg, scanners, pr, otherVars>>

\* scanner.py:199-247: one entry of the directory on top of the stack.  An
\* exception that is not an OSError passes the handlers of lines 238-254 in
\* every activation and is caught by _scan_files (scanner.py:169-177), which
\* goes on with the next scan root.
Scan_Item(c) ==
  /\ sc[c].pc = "files"
  /\ sc[c].stack # <<>>
  /\ Last(sc[c].stack).todo # {}
  /\ \E item \in Last(sc[c].stack).todo :
       LET s == sc[c]
           top == Last(s.stack)
           unit == s.ri - 1
           fault == FaultAt(item)
           matched == Matches(Last(item), s.patterns)
           isfile == is_file(fs, item) /\ fault \in {"", "stat"}
           isdir == is_dir(fs, item) /\ fault = ""
           sizes == IF matched /\ isdir THEN directory_sizes(fs, item)
                    ELSE {[raises |-> "", size |-> 0]}
       IN \E sz \in sizes :
            LET unexpected == propagates(fault) \/ propagates(sz.raises)
                leftover == IF isfile
                            THEN Leftover("file", item,
                                          IF fault = "stat" THEN None
                                          ELSE Some(st_size(item)))
                            ELSE Leftover("directory", item, Some(sz.size))
                record == matched /\ (isfile \/ isdir) /\ ~unexpected
                ls == iterdir(fs, item)
                enter == descend_dir(matched, isdir, top.depth) /\ ls.err = ""
                rest == [s.stack EXCEPT ![Len(s.stack)].todo = @ \ {item}]
                after == [s EXCEPT
                            !.stack = IF enter
                                      THEN Append(rest, DirFrame(item, top.depth + 1,
                                                                 ls.items))
                                      ELSE rest,
                            !.listed = IF enter
                                       THEN @ \cup {[unit |-> unit, at |-> item,
                                                     depth |-> top.depth + 1]}
                                       ELSE @]
            IN /\ sc' = [sc EXCEPT ![c] =
                     IF unexpected
                     THEN [s EXCEPT !.stack = <<>>,
                                    !.aborted = @ \cup {[pass |-> "files", unit |-> unit]}]
                     ELSE IF record THEN Recorded(after, leftover, unit)
                     ELSE after]
               /\ scanners' = IF record
                              THEN [scanners EXCEPT ![s.obj].leftovers =
                                      Append(@, leftover)]
                              ELSE scanners
  /\ UNCHANGED <<fs, reg, regcfg, cl, fscfg, pr, otherVars>>

\* _scan_directory returns: every entry of the directory has been examined
Scan_DirDone(c) ==
  /\ sc[c].pc = "files"
  /\ sc[c].stack # <<>>
  /\ Last(sc[c].stack).todo = {}
  /\ sc' = [sc EXCEPT ![c].stack = Front(@)]
  /\ UNCHANGED <<fs, reg, regcfg, cl, fscfg, scanners, pr, otherVars>>

\* scanner.py:323-327, one turn of the loop: the call of _scan_registry_key on
\* a base key up to the opening of the key (scanner.py:347-353)
ScanReg_Base(c) ==
  /\ sc[c].pc = "registry"
  /\ sc[c].stack = <<>>
  /\ LET s == sc[c]
     IN IF s.bi > Len(registry_paths)
        THEN sc' = [sc EXCEPT ![c] = Enter(s, "registry", <<>>)]
        ELSE LET hive == registry_paths[s.bi][1]
                 base == registry_paths[s.bi][2]
             IN sc' = [sc EXCEPT ![c] =
                  IF OpenKeyDefault(reg, hive, base) # "ok"
                  THEN [s EXCEPT !.bi = @ + 1]
                  ELSE [s EXCEPT !.bi = @ + 1,
                                 !.stack = <<KeyFrame(hive, base, 0)>>,
                                 !.handles = @ \cup {<<hive, base>>},
                                 !.opened = @ \cup {[unit |-> s.bi,
                                                     at |-> <<hive, base>>,
                                                     depth |-> 0]}]]
  /\ UNCHANGED <<fs, reg, regcfg, cl, fscfg, scanners, pr, otherVars>>

\* scanner.py:354-379: one turn of the while loop of the key on top of the
\* stack.  An exception that is not an OSError passes the handlers of lines
\* 376-383 in every activation and is caught by _scan_registry
\* (scanner.py:324-327), which goes on with the next base key.
ScanReg_Enum(c) ==
  /\ sc[c].pc = "registry"
  /\ sc[c].stack # <<>>
  /\ LET s == sc[c]
         top == Last(s.stack)
         unit == s.bi - 1
         sub == EnumKey(reg, top.hive, top.key_path, top.index)
         name == sub[1]
         matched == Matches(name, s.patterns)
         child == Append(top.key_path, name)
         leftover == Leftover("registry",
                              <<_get_hive_name(top.hive)>> \o top.key_path \o <<name>>,
                              None)
         unexpected == descend_key(matched, top.depth)
                       /\ <<top.hive, child>> \in fscfg.keyfaults
         enter == descend_key(matched, top.depth)
                  /\ OpenKeyDefault(reg, top.hive, child) = "ok"
         rest == [s.stack EXCEPT ![Len(s.stack)].index = @ + 1]
         after == [s EXCEPT
                     !.stack = IF enter
                               THEN Append(rest, KeyFrame(top.hive, child, top.depth + 1))
                               ELSE rest,
                     !.handles = IF enter THEN @ \cup {<<top.hive, child>>} ELSE @,
                     !.opened = IF enter
                                THEN @ \cup {[unit |-> unit, at |-> <<top.hive, child>>,
                                              depth |-> top.depth + 1]}
                                ELSE @]
     IN IF sub = None
        THEN /\ sc' = [sc EXCEPT ![c].stack = Front(@),
                                 ![c].handles = CloseKey(@, <<top.hive, top.key_path>>)]
             /\ scanners' = scanners
        ELSE /\ sc' = [sc EXCEPT ![c] =
                  IF unexpected
                  THEN [s EXCEPT !.stack = <<>>,
                                 !.handles = UnwindKeys(@, s.stack),
                                 !.aborted = @ \cup {[pass |-> "registry", unit |-> unit]}]
                  ELSE IF matched THEN Recorded(after, leftover, unit)
                  ELSE after]
             /\ scanners' = IF matched
                            THEN [scanners EXCEPT ![s.obj].leftovers = Append(@, leftover)]
                            ELSE scanners
  /\ UNCHANGED <<fs, reg, regcfg, cl, fscfg, pr, otherVars>>

\* scanner.py:418-423, one turn of the loop: os.walk lists the shortcut directory
Scan_ShortcutDir(c) ==
  /\ sc[c].pc = "shortcuts"
  /\ sc[c].stack = <<>>
  /\ LET s == sc[c]
     IN IF s.si > Len(s.sdirs)
        THEN sc' = [sc EXCEPT ![c] = Enter(s, "shortcuts", <<>>)]
        ELSE LET dir == s.sdirs[s.si]
             IN sc' = [sc EXCEPT ![c] =
                  IF iterdir(fs, dir).err # "" THEN [s EXCEPT !.si = @ + 1]
                  ELSE [s EXCEPT !.si = @ + 1,
                                 !.stack = <<WalkFrame(fs, dir)>>,
                                 !.walked = @ \cup {[unit |-> s.si, at |-> dir,
                                                     depth |-> 0]}]]
  /\ UNCHANGED <<fs, reg, regcfg, cl, fscfg, scanners, pr, otherVars>>

\* scanner.py:424-432: one file of the directory os.walk is at
Scan_WalkFile(c) ==
  /\ sc[c].pc = "shortcuts"
  /\ sc[c].stack # <<>>
  /\ Last(sc[c].stack).files # {}
  /\ \E file \in Last(sc[c].stack).files :
       LET s == sc[c]
           unit == s.si - 1
           record == EndsWith(ToLower(Last(file)), dotLnk)
                     /\ Matches(Last(file), s.patterns)
           leftover == Leftover("shortcut", file, None)
           after == [s EXCEPT !.stack[Len(s.stack)].files = @ \ {file}]
       IN /\ sc' = [sc EXCEPT ![c] = IF record THEN Recorded(after, leftover, unit)
                                     ELSE after]
          /\ scanners' = IF record
                         THEN [scanners EXCEPT ![s.obj].leftovers = Append(@, leftover)]
                         ELSE scanners
  /\ UNCHANGED <<fs, reg, regcfg, cl, fscfg, pr, otherVars>>

\* os.walk goes down into a subdirectory of the directory it is at; it passes
\* over one it may not list
Scan_WalkDir(c) ==
  /\ sc[c].pc = "shortcuts"
  /\ sc[c].stack # <<>>
  /\ Last(sc[c].stack).files = {}
  /\ Last(sc[c].stack).dirs # {}
  /\ \E dir \in Last(sc[c].stack).dirs :
       LET s == sc[c]
           unit == s.si - 1
           rest == [s.stack EXCEPT ![Len(s.stack)].dirs = @ \ {dir}]
       IN sc' = [sc EXCEPT ![c] =
            IF iterdir(fs, dir).err # "" THEN [s EXCEPT !.stack = rest]
            ELSE [s EXCEPT !.stack = Append(rest, WalkFrame(fs, dir)),
                           !.walked = @ \cup {[unit |-> unit, at |-> dir,
                                               depth |-> Len(s.stack)]}]]
  /\ UNCHANGED <<fs, reg, regcfg, cl, fscfg, scanners, pr, otherVars>>

\* os.walk is through with the directory it is at
Scan_WalkDone(c) ==
  /\ sc[c].pc = "shortcuts"
  /\ sc[c].stack # <<>>
  /\ Last(sc[c].stack).files = {}
  /\ Last(sc[c].stack).dirs = {}
  /\ sc' = [sc EXCEPT ![c].stack = Front(@)]
  /\ UNCHANGED <<fs, reg, regcfg, cl, fscfg, scanners, pr, otherVars>>

\* scanner.py:103-109
Scan_Return(c) ==
  /\ sc[c].pc = "return"
  /\ sc' = [sc EXCEPT ![c].pc = "done",
                      ![c].result = scanners[sc[c].obj].leftovers]
  /\ UNCHANGED <<fs, reg, regcfg, cl, fscfg, scanners, pr, otherVars>>

NextScan ==
  \E c \in Calls :
    \/ Scan_Start(c)
    \/ Scan_Root(c)
    \/ Scan_Item(c)
    \/ Scan_DirDone(c)
    \/ ScanReg_Base(c)
    \/ ScanReg_Enum(c)
    \/ Scan_ShortcutDir(c)
    \/ Scan_WalkFile(c)
    \/ Scan_WalkDir(c)
    \/ Scan_WalkDone(c)
    \/ Scan_Return(c)

(***************************************************************************)
(* SystemSnapshot.compare_filesystem (src/core/monitor.py).  self.files    *)
(* is a dict from a path to (size, timestamp); a dict is the sequence of   *)
(* its items <<path, <<size, timestamp>>>> in insertion order, no path     *)
(* twice.  A FileChange is a record; a field left at its default is None.  *)
(***************************************************************************)
\* path in d
Keys(d) == {d[i][1] : i \in 1..Len(d)}

\* d[path], for a path that is a key of d
Get(d, path) == d[CHOOSE i \in 1..Len(d) : d[i][1] = path][2]

\* monitor.py:24-30
FileChange(path, change_type, size, timestamp) ==
  [path |-> path, change_type |-> change_type, size |-> size, timestamp |-> timestamp]

\* The first loop alone: the paths of self.files that are new or changed.
compare_filesystem_first_loop(self_files, other_files) ==
  LET Changed(item) == item[1] \notin Keys(other_files) \/ Get(other_files, item[1]) # item[2]
      sel == SelectSeq(self_files, Changed)
  IN [i \in 1..Len(sel) |->
        FileChange(sel[i][1],
                   IF sel[i][1] \notin Keys(other_files) THEN "added" ELSE "modified",
                   Some(sel[i][2][1]), Some(sel[i][2][2]))]

\* monitor.py:230-267
compare_filesystem(self_files, other_files) ==
  LET Changed(item) == item[1] \notin Keys(other_files) \/ Get(other_files, item[1]) # item[2]
      sel == SelectSeq(self_files, Changed)
      Gone(item) == item[1] \notin Keys(self_files)
      del == SelectSeq(other_files, Gone)
  IN [i \in 1..Len(sel) |->
        FileChange(sel[i][1],
                   IF sel[i][1] \notin Keys(other_files) THEN "added" ELSE "modified",
                   Some(sel[i][2][1]), Some(sel[i][2][2]))]
     \o [i \in 1..Len(del) |-> FileChange(del[i][1], "deleted", None, None)]

CompareIdle ==
  [pc |-> "idle", self_files |-> <<>>, other_files |-> <<>>, changes |-> <<>>]

\* after.compare_filesystem(before) is about to be called
CompareCall(after, before) ==
  [pc |-> "call", self_files |-> after, other_files |-> before, changes |-> <<>>]

\* monitor.py:230-267
Compare_Call ==
  /\ snap.pc = "call"
  /\ snap' = [snap EXCEPT !.pc = "returned",
                          !.changes = compare_filesystem(snap.self_files, snap.other_files)]
  /\ UNCHANGED <<fs, reg, regcfg, cl, fscfg, sc, scanners, pr, bg, batch>>

NextCompare == Compare_Call

(***************************************************************************)
(* BackgroundMonitor (src/core/background_monitor.py).  bg.running is      *)
(* self._running, bg.thread is self._thread, bg.loops is the position of   *)
(* each thread that runs _monitor_loop ("new" before it is created), and   *)
(* bg.caller is the position of the thread that calls start() and stop():  *)
(* "idle" between calls, "start" / "stop" after the locked section of the  *)
(* call.  bg.logged is the last message of start() or stop().              *)
(***************************************************************************)
Threads == 1..MaxThreads

MonitorNew ==
  [running |-> FALSE, thread |-> None, loops |-> [t \in Threads |-> "new"],
   caller |-> "idle", logged |-> ""]

\* threading.Thread.is_alive()
is_alive(loops, t) == loops[t] \in {"test", "check", "sleep"}

\* background_monitor.py:67-69: start() while the monitor runs
Start_AlreadyRunning ==
  /\ bg.caller = "idle"
  /\ bg.running
  /\ bg' = [bg EXCEPT !.logged = "already running"]
  /\ UNCHANGED <<fs, reg, regcfg, cl, fscfg, sc, scanners, pr, snap, batch>>

\* background_monitor.py:66-71: the locked section of start()
Start_Lock ==
  /\ bg.caller = "idle"
  /\ ~bg.running
  /\ \E t \in Threads : bg.loops[t] = "new"
  /\ bg' = [bg EXCEPT !.running = TRUE, !.caller = "start"]
  /\ UNCHANGED <<fs, reg, regcfg, cl, fscfg, sc, scanners, pr, snap, batch>>

\* background_monitor.py:73-77: the thread is created and started
Start_Thread ==
  /\ bg.caller = "start"
  /\ LET t == CHOOSE u \in Threads :
                /\ bg.loops[u] = "new"
                /\ \A v \in Threads : bg.loops[v] = "new" => u <= v
     IN bg' = [bg EXCEPT !.thread = Some(t), !.loops[t] = "test",
                         !.caller = "idle", !.logged = "started"]
  /\ UNCHANGED <<fs, reg, regcfg, cl, fscfg, sc, scanners, pr, snap, batch>>

\* background_monitor.py:82-84: stop() while the monitor is stopped
Stop_NotRunning ==
  /\ bg.caller = "idle"
  /\ ~bg.running
  /\ bg' = [bg EXCEPT !.logged = "not running"]
  /\ UNCHANGED <<fs, reg, regcfg, cl, fscfg, sc, scanners, pr, snap, batch>>

\* background_monitor.py:81-86: the locked section of stop()
Stop_Lock ==
  /\ bg.caller = "idle"
  /\ bg.running
  /\ bg' = [bg EXCEPT !.running = FALSE, !.caller = "stop"]
  /\ UNCHANGED <<fs, reg, regcfg, cl, fscfg, sc, scanners, pr, snap, batch>>

\* background_monitor.py:88-92: the thread has ended, join() returns at once
Stop_Joined ==
  /\ bg.caller = "stop"
  /\ \A t \in Threads : bg.thread = Some(t) => ~is_alive(bg.loops, t)
  /\ bg' = [bg EXCEPT !.caller = "idle", !.logged = "stopped"]
  /\ UNCHANGED <<fs, reg, regcfg, cl, fscfg, sc, scanners, pr, snap, batch>>

\* background_monitor.py:88-92: join(timeout=5) gives up on a thread that
\* sleeps in time.sleep(self._check_interval); the interval is 60 s by
\* default and never set below 10 s (lines 49, 106-108)
Stop_JoinTimeout ==
  /\ bg.caller = "stop"
  /\ \E t \in Threads : bg.thread = Some(t) /\ bg.loops[t] = "sleep"
  /\ bg' = [bg EXCEPT !.caller = "idle", !.logged = "stopped"]
  /\ UNCHANGED <<fs, reg, regcfg, cl, fscfg, sc, scanners, pr, snap, batch>>

\* background_monitor.py:123-126: the test of self._running under the lock
Loop_Test(t) ==
  /\ bg.loops[t] = "test"
  /\ bg' = [bg EXCEPT !.loops[t] = IF bg.running THEN "check" ELSE "ended"]
  /\ UNCHANGED <<fs, reg, regcfg, cl, fscfg, sc, scanners, pr, snap, batch>>

\* background_monitor.py:128-147: one check for new installations
Loop_Check(t) ==
  /\ bg.loops[t] = "check"
  /\ bg' = [bg EXCEPT !.loops[t] = "sleep"]
  /\ UNCHANGED <<fs, reg, regcfg, cl, fscfg, sc, scanners, pr, snap, batch>>

\* background_monitor.py:150: time.sleep(self._check_interval) returns
Loop_Wake(t) ==
  /\ bg.loops[t] = "sleep"
  /\ bg' = [bg EXCEPT !.loops[t] = "test"]
  /\ UNCHANGED <<fs, reg, regcfg, cl, fscfg, sc, scanners, pr, snap, batch>>

NextMonitor ==
  \/ Start_AlreadyRunning
  \/ Start_Lock
  \/ Start_Thread
  \/ Stop_NotRunning
  \/ Stop_Lock
  \/ Stop_Joined
  \/ Stop_JoinTimeout
  \/ \E t \in Threads : Loop_Test(t)
  \/ \E t \in Threads : Loop_Check(t)
  \/ \E t \in Threads : Loop_Wake(t)

(***************************************************************************)
(* BatchUninstaller.uninstall_multiple (src/core/batch_uninstaller.py).    *)
(* What Uninstaller.uninstall, LeftoverScanner.scan and Cleaner do for one *)
(* program is chosen by the machine:                                       *)
(*   uninstall  returns a result whose success is TRUE or FALSE (it        *)
(*              catches every exception, uninstaller.py:70-107);           *)
(*   scan       returns a list of 0..MaxFound leftovers, or raises (its    *)
(*              pattern generation is outside every try,                   *)
(*              scanner.py:91, 124-126);                                   *)
(*   clean      returns a result with 0..len(leftovers) deleted items, or, *)
(*              with create_backup, Cleaner() raises when BackupManager    *)
(*              cannot create the backup directory (cleaner.py:49,         *)
(*              backup.py:40).                                             *)
(* batch.trace is the history of these calls, never read by an action.     *)
(***************************************************************************)
UninstallOutcomes == {TRUE, FALSE}

ScanOutcomes ==
  {[raised |-> FALSE, found |-> n] : n \in 0..MaxFound}
    \cup {[raised |-> TRUE, found |-> 0]}

CleanOutcomes(found, create_backup) ==
  {[raised |-> FALSE, deleted |-> d] : d \in 0..found}
    \cup (IF create_backup THEN {[raised |-> TRUE, deleted |-> 0]} ELSE {})

\* batch_uninstaller.py:22-34
BatchUninstallResult(total_programs) ==
  [total_programs |-> total_programs, successful |-> 0, failed |-> 0, skipped |-> 0,
   results |-> <<>>, leftovers_found |-> 0, leftovers_cleaned |-> 0, errors |-> <<>>]

BatchIdle ==
  [pc |-> "idle", programs |-> <<>>, scan_leftovers |-> FALSE,
   clean_leftovers |-> FALSE, create_backup |-> FALSE, index |-> 0,
   leftovers |-> 0, result |-> BatchUninstallResult(0), trace |-> <<>>]

\* uninstall_multiple(programs, True, create_backup, scan_leftovers,
\* clean_leftovers) is about to be called
BatchCall(programs, create_backup, scan_leftovers, clean_leftovers) ==
  [BatchIdle EXCEPT !.pc = "call", !.programs = programs,
                    !.create_backup = create_backup,
                    !.scan_leftovers = scan_leftovers,
                    !.clean_leftovers = clean_leftovers]

\* One call made for the program at position index of the list.
Event(b, op, ok, found) ==
  [op |-> op, index |-> b.index, program |-> b.programs[b.index], ok |-> ok,
   found |-> found]

\* batch_uninstaller.py:166-169: the except clause of the loop body
ProgramFailed(b, op) ==
  [b EXCEPT !.pc = "loop",
            !.result.failed = @ + 1,
            !.result.errors = Append(@, b.programs[b.index]),
            !.trace = Append(@, Event(b, op, FALSE, 0))]

\* batch_uninstaller.py:127, 132: the scan follows a successful uninstall
\* when it is requested
scans_every_program(success, scan_leftovers) == scan_leftovers

scans(success, scan_leftovers) == success /\ scan_leftovers

\* batch_uninstaller.py:95-107
Batch_Start ==
  /\ batch.pc = "call"
  /\ batch' = [batch EXCEPT !.pc = "loop",
                            !.result = BatchUninstallResult(Len(batch.programs))]
  /\ UNCHANGED <<fs, reg, regcfg, cl, fscfg, sc, scanners, pr, snap, bg>>

\* batch_uninstaller.py:109-130, 160-164: the next program is uninstalled
Batch_Uninstall ==
  /\ batch.pc = "loop"
  /\ batch.index < Len(batch.programs)
  /\ \E success \in UninstallOutcomes :
       LET b == [batch EXCEPT !.index = @ + 1]
           program == b.programs[b.index]
           u == [b EXCEPT !.result.results = Append(@, <<program, success>>),
                          !.trace = Append(@, Event(b, "uninstall", success, 0))]
           v == [u EXCEPT !.pc = IF scans(success, b.scan_leftovers)
                                 THEN "scan" ELSE "loop"]
       IN batch' =
            IF success
            THEN [v EXCEPT !.result.successful = @ + 1]
            ELSE [v EXCEPT !.result.failed = @ + 1,
                           !.result.errors = Append(@, program)]
  /\ UNCHANGED <<fs, reg, regcfg, cl, fscfg, sc, scanners, pr, snap, bg>>

\* batch_uninstaller.py:132-143: the leftovers of the program are scanned
Batch_Scan ==
  /\ batch.pc = "scan"
  /\ \E r \in ScanOutcomes :
       batch' =
         IF r.raised THEN ProgramFailed(batch, "scan")
         ELSE [batch EXCEPT
                 !.leftovers = r.found,
                 !.result.leftovers_found = @ + r.found,
                 !.trace = Append(@, Event(batch, "scan", TRUE, r.found)),
                 !.pc = IF batch.clean_leftovers /\ r.found > 0
                        THEN "clean" ELSE "loop"]
  /\ UNCHANGED <<fs, reg, regcfg, cl, fscfg, sc, scanners, pr, snap, bg>>

\* batch_uninstaller.py:145-158: the leftovers found are cleaned
Batch_Clean ==
  /\ batch.pc = "clean"
  /\ \E r \in CleanOutcomes(batch.leftovers, batch.create_backup) :
       batch' =
         IF r.raised THEN ProgramFailed(batch, "clean")
         ELSE [batch EXCEPT
                 !.result.leftovers_cleaned = @ + r.deleted,
                 !.trace = Append(@, Event(batch, "clean", TRUE, batch.leftovers)),
                 !.pc = "loop"]
  /\ UNCHANGED <<fs, reg, regcfg, cl, fscfg, sc, scanners, pr, snap, bg>>

\* batch_uninstaller.py:171-180
Batch_Return ==
  /\ batch.pc = "loop"
  /\ batch.index = Len(batch.programs)
  /\ batch' = [batch EXCEPT !.pc = "returned"]
  /\ UNCHANGED <<fs, reg, regcfg, cl, fscfg, sc, scanners, pr, snap, bg>>

NextBatch ==
  \/ Batch_Start
  \/ Batch_Uninstall
  \/ Batch_Scan
  \/ Batch_Clean
  \/ Batch_Return

(***************************************************************************)
(* Initial states: the machine clean() or scan() runs on and the input of  *)
(* the call.                                                               *)
(***************************************************************************)
SeqsUpTo(S, n) == UNION {[1..m -> S] : m \in 0..n}

RECURSIVE SubsetsUpTo(_, _)
SubsetsUpTo(S, n) ==
  IF n = 0 THEN {{}}
  ELSE LET prev == SubsetsUpTo(S, n - 1)
       IN prev \cup {T \cup {x} : T \in prev, x \in S}

TreeClosed(S) == \A k \in S : Len(k[2]) = 1 \/ <<k[1], Front(k[2])>> \in S

InitRegistry(keys, redirections) ==
  /\ reg \in [Stores -> {S \in SUBSET keys : TreeClosed(S)}]
  /\ regcfg \in [redirected : redirections, defaultView : Stores,
                 restricted : SubsetsUpTo([store : Stores, key : keys,
                                           mode : AclModes], MaxRestricted)]
  /\ ~regcfg.redirected => regcfg.defaultView = "v64" /\ reg["v32"] = {}
  /\ \A r \in regcfg.restricted : r.key \in reg[r.store]
  /\ \A r1, r2 \in regcfg.restricted :
       r1.store = r2.store /\ r1.key = r2.key => r1 = r2

CleanItems == {LS1, LF1, LF2, LD1, LK, LSvc}
CleanKeys == {<<"hklm", <<"k">>>>, <<"hklm", <<"k", "a">>>>}

NoFaults == fscfg = [denied |-> {}, faults |-> {}, keyfaults |-> {}]

NoParse == pr = [c \in Calls |-> ParseIdle]

NoCompare == snap = CompareIdle

NoOther == NoCompare /\ bg = MonitorNew /\ batch = BatchIdle

NoScan ==
  /\ NoFaults
  /\ NoParse
  /\ NoOther
  /\ sc = [c \in Calls |-> ScanIdle]
  /\ scanners = [o \in Objs |-> [leftovers |-> <<>>]]

InitClean ==
  /\ NoScan
  /\ fs = FsPaths
  /\ InitRegistry(CleanKeys, {FALSE})
  /\ \E leftovers \in SeqsUpTo(CleanItems, MaxLen), create_backup \in BOOLEAN :
       cl = [c \in Calls |-> IF c = "c1" THEN Call(leftovers, create_backup) ELSE Idle]

RegItems == {LK, LKA, LBad, LF1}

\* Lists that hold registry paths the parser rejects: an unknown hive, a hive
\* name and a backslash with nothing behind, a hive name alone, a hive name in
\* lower case.
InvalidItems == {LBad, LEmptySub, LHiveOnly, LLowerCase, LK, LF1}

InitInvalid ==
  /\ NoScan
  /\ fs = FsPaths
  /\ InitRegistry(CleanKeys, {FALSE})
  /\ \E leftovers \in SeqsUpTo(InvalidItems, MaxLen), create_backup \in BOOLEAN :
       cl = [c \in Calls |-> IF c = "c1" THEN Call(leftovers, create_backup) ELSE Idle]

\* Lists whose leftovers all carry a size, whatever their type: size is a
\* field of every Leftover (scanner.py:24).
SizedItems == {LSz, LKz, LF1, LD1}

InitSized ==
  /\ NoScan
  /\ fs = FsPaths
  /\ InitRegistry(CleanKeys, {FALSE})
  /\ \E leftovers \in SeqsUpTo(SizedItems, MaxLen), create_backup \in BOOLEAN :
       cl = [c \in Calls |-> IF c = "c1" THEN Call(leftovers, create_backup) ELSE Idle]

InitReg ==
  /\ NoScan
  /\ fs = FsPaths
  /\ InitRegistry(RegKeys, BOOLEAN)
  /\ \E leftovers \in SeqsUpTo(RegItems, MaxRegLen), create_backup \in BOOLEAN :
       cl = [c \in Calls |-> IF c = "c1" THEN Call(leftovers, create_backup) ELSE Idle]

(***************************************************************************)
(* Names and publishers with what str.lower() and                          *)
(* re.sub(r'\s+\d+(\.\d+)*', '', name).lower() make of them in Python.      *)
(***************************************************************************)
NameTable ==
  {
   [name |-> <<>>,
    lower |-> <<>>,
    stripped |-> <<>>],
   [name |-> <<"a", "b">>,
    lower |-> <<"a", "b">>,
    stripped |-> <<"a", "b">>],
   [name |-> <<"A", "b", "c">>,
    lower |-> <<"a", "b", "c">>,
    stripped |-> <<"a", "b", "c">>],
   [name |-> <<"A", "C", "M", "E">>,
    lower |-> <<"a", "c", "m", "e">>,
    stripped |-> <<"a", "c", "m", "e">>],
   [name |-> <<"A", "c", "m", "e", " ", "2", ".", "0">>,
    lower |-> <<"a", "c", "m", "e", " ", "2", ".", "0">>,
    stripped |-> <<"a", "c", "m", "e">>],
   [name |-> <<"A", "c", "m", "e", " ", "2", ".", "0", ".", "1", " ", "P", "r", "o", " ", "3">>,
    lower |-> <<"a", "c", "m", "e", " ", "2", ".", "0", ".", "1", " ", "p", "r", "o", " ", "3">>,
    stripped |-> <<"a", "c", "m", "e", " ", "p", "r", "o">>],
   [name |-> <<"A", "c", "m", "e", " ", " ", "1", "0">>,
    lower |-> <<"a", "c", "m", "e", " ", " ", "1", "0">>,
    stripped |-> <<"a", "c", "m", "e">>],
   [name |-> <<"7", " ", "Z", "i", "p">>,
    lower |-> <<"7", " ", "z", "i", "p">>,
    stripped |-> <<"7", " ", "z", "i", "p">>],
   [name |-> <<"W", "i", "n", " ", "7", "z", "i", "p">>,
    lower |-> <<"w", "i", "n", " ", "7", "z", "i", "p">>,
    stripped |-> <<"w", "i", "n", "z", "i", "p">>],
   [name |-> <<"A", " ", "1">>,
    lower |-> <<"a", " ", "1">>,
    stripped |-> <<"a">>],
   [name |-> <<"A", "c", "m", "e", " ", "2", ".">>,
    lower |-> <<"a", "c", "m", "e", " ", "2", ".">>,
    stripped |-> <<"a", "c", "m", "e", ".">>],
   [name |-> <<"A", "c", "m", "e", "\t", "2">>,
    lower |-> <<"a", "c", "m", "e", "\t", "2">>,
    stripped |-> <<"a", "c", "m", "e">>],
   [name |-> <<"A", "b", " ", "1", "2">>,
    lower |-> <<"a", "b", " ", "1", "2">>,
    stripped |-> <<"a", "b">>]}

PublisherTable ==
  {
   [publisher |-> <<>>, lower |-> <<>>],
   [publisher |-> <<"A", "c">>, lower |-> <<"a", "c">>],
   [publisher |-> <<"A", "C", "M", "E">>, lower |-> <<"a", "c", "m", "e">>],
   [publisher |-> <<"A", "c", "m", "e", " ", "I", "n", "c", " ", "2">>, lower |-> <<"a", "c", "m", "e", " ", "i", "n", "c", " ", "2">>],
   [publisher |-> <<"a", "c", "m", "e">>, lower |-> <<"a", "c", "m", "e">>],
   [publisher |-> <<"Z", "e", "d">>, lower |-> <<"z", "e", "d">>],
   [publisher |-> <<"a", "b", "c">>, lower |-> <<"a", "b", "c">>],
   [publisher |-> <<"A", " ", "1">>, lower |-> <<"a", " ", "1">>]}

\* The programs scan() is called for.
Programs ==
  {[name |-> <<"A", "c", "m", "e", " ", "2", ".", "0">>, publisher |-> <<>>],
   [name |-> <<"L", "i", "b">>, publisher |-> <<"A", "C", "M", "E">>],
   [name |-> <<"a", "b">>, publisher |-> <<>>],
   [name |-> <<"L", "i", "b">>,
    publisher |-> <<"M", "i", "c", "r", "o", "s", "o", "f", "t">>]}

\* The entries a scanned filesystem is made of: it holds some of these and
\* the directories above them.
ScanLeaves ==
  {PF \o <<nAcme, nAcmeLog>>, PF \o <<nAcme, nLib>>, PF \o <<nAcme, nAcme>>,
   PF \o <<nAcmeLog>>, PF \o <<nLib, nAcmeLog>>, PF \o <<nLib, nLib, nAcme>>,
   PF \o <<nLib, nLib, nLib, nAcmeLog>>,
   PF86 \o <<nAcme>>,
   RO \o <<nAcmeLog>>,
   RO \o <<nMicrosoft, nWindows, nStartMenu, nAcmeLnk>>,
   RO \o <<nMicrosoft, nWindows, nStartMenu, nPrograms, nAcmeLnk>>,
   RO \o <<nMicrosoft, nWindows, nStartMenu, nPrograms, nAcme, nAcmeLnk>>,
   PD \o <<nAcme>>,
   PD \o <<nMicrosoft, nWindows, nStartMenu, nPrograms, nLibLnk>>,
   UP \o <<nDesktop, nAcmeLnk>>, UP \o <<nDesktop, nAcmeLog>>}

\* The paths of S and the directories above them.
WithParents(S) == UNION {{SubSeq(q, 1, n) : n \in 1..Len(q)} : q \in S}

ScanFileSystems(n) == {WithParents(S) : S \in SubsetsUpTo(ScanLeaves, n)}

\* The keys a scanned registry is made of, beneath Software.
ScanKeyLeaves ==
  {<<hive, <<nSoftware>> \o q>> :
     hive \in {"hklm", "hkcu"},
     q \in {<<nAcme, nAcme>>, <<nAcme, nLib>>, <<nLib, nAcme>>,
            <<nLib, nLib, nAcme>>, <<nLib, nLib, nLib, nAcme>>}}

KeysWithParents(S) ==
  UNION {{<<k[1], SubSeq(k[2], 1, n)>> : n \in 1..Len(k[2])} : k \in S}
  \cup {<<"hklm", <<nSoftware>>>>, <<"hkcu", <<nSoftware>>>>}

\* hkcu is kept in the store of the 64-bit view only: it is not redirected
ScanRegistries(n) ==
  {[st \in Stores |->
      IF st = "v64" THEN KeysWithParents(S64)
      ELSE KeysWithParents({k \in S32 : k[1] = "hklm"}) \ {<<"hkcu", <<nSoftware>>>>}] :
     S64 \in SubsetsUpTo(ScanKeyLeaves, n), S32 \in SubsetsUpTo(ScanKeyLeaves, n)}

InitScan(programs, flags, filesystems, registries, redirections, views) ==
  /\ fs \in filesystems
  /\ fscfg \in [denied : SubsetsUpTo({q \in UNION filesystems : ~IsFileName(Last(q))},
                                      MaxDenied),
                 faults : {{}}, keyfaults : {{}}]
  /\ fscfg.denied \subseteq fs
  /\ reg \in registries
  /\ regcfg \in [redirected : redirections, defaultView : views, restricted : {{}}]
  /\ ~regcfg.redirected => regcfg.defaultView = "v64"
                           /\ reg["v32"] = {<<"hklm", <<nSoftware>>>>}
  /\ cl = [c \in Calls |-> Idle]
  /\ NoParse
  /\ NoOther
  /\ scanners = [o \in Objs |-> [leftovers |-> <<>>]]
  /\ \E program \in programs, files \in flags, registry \in flags,
        shortcuts \in flags :
       sc = [c \in Calls |-> IF c = "c1"
                              THEN ScanCall("o1", program, files, registry, shortcuts)
                              ELSE ScanIdle]

\* scan() on varied filesystems and one registry
InitScanFiles ==
  InitScan(Programs, BOOLEAN, ScanFileSystems(MaxPicks),
           {[st \in Stores |-> KeysWithParents({<<"hklm", <<nSoftware, nLib, nAcme>>>>})]},
           {TRUE}, {"v64"})

\* scan() on varied registries and one filesystem
InitScanReg ==
  InitScan(Programs, BOOLEAN, {WithParents({PF \o <<nLib, nAcmeLog>>, UP \o <<nDesktop, nAcmeLnk>>,
                         UP \o <<nDesktop, nAcme, nAcmeLnk>>})},
           ScanRegistries(MaxKeyPicks), BOOLEAN, Stores)

TwoPrograms ==
  {[name |-> <<"A", "c", "m", "e", " ", "2", ".", "0">>, publisher |-> <<>>],
   [name |-> <<"L", "i", "b">>,
    publisher |-> <<"M", "i", "c", "r", "o", "s", "o", "f", "t">>]}

\* Two calls of scan() for different programs, every pass enabled, on two
\* scanner objects or on the same one, their steps interleaved.
InitScanTwo ==
  /\ NoFaults
  /\ fs = WithParents({PF \o <<nLib, nAcmeLog>>, UP \o <<nDesktop, nAcme, nAcmeLnk>>})
  /\ reg = [st \in Stores |-> KeysWithParents({<<"hklm", <<nSoftware, nLib, nAcme>>>>})]
  /\ regcfg = [redirected |-> TRUE, defaultView |-> "v64", restricted |-> {}]
  /\ cl = [c \in Calls |-> Idle]
  /\ NoParse
  /\ NoOther
  /\ scanners = [o \in Objs |-> [leftovers |-> <<>>]]
  /\ \E p1 \in TwoPrograms, p2 \in TwoPrograms, obj \in Objs :
       /\ p1 # p2
       /\ sc = [c \in Calls |->
                  IF c = "c1" THEN ScanCall("o1", p1, TRUE, TRUE, TRUE)
                  ELSE ScanCall(obj, p2, TRUE, TRUE, TRUE)]

\* scan() on filesystems and registries with entries at and beyond the depth
\* the passes reach
DepthLeaves ==
  {PF \o <<nLib, nLib, nAcme>>, PF \o <<nLib, nLib, nLib, nAcmeLog>>,
   PF \o <<nAcme, nLib, nAcmeLog>>, PF \o <<nLib, nAcmeLog>>}

InitScanDepth ==
  InitScan(Programs, {TRUE},
           {WithParents(S \cup {UP \o <<nDesktop, nAcme, nAcmeLnk>>}) :
              S \in SubsetsUpTo(DepthLeaves, MaxPicks)},
           {[st \in Stores |->
               IF st = "v64" THEN KeysWithParents(S)
               ELSE KeysWithParents({k \in S : k[1] = "hklm"}) \ {<<"hkcu", <<nSoftware>>>>}] :
              S \in SubsetsUpTo(ScanKeyLeaves, MaxKeyPicks)},
           {TRUE}, {"v64"})

\* scan() for programs that yield no pattern, or patterns that nothing holds
NonePrograms ==
  {NoProgram,
   [name |-> <<>>, publisher |-> <<"A", "c">>],
   [name |-> <<"a", "b">>, publisher |-> <<"A", "c">>],
   [name |-> <<"Z", "e", "d", " ", "1">>, publisher |-> <<>>]}

InitScanNone ==
  InitScan(NonePrograms, {TRUE}, ScanFileSystems(MaxPicks),
           {[st \in Stores |-> KeysWithParents({<<"hklm", <<nSoftware, nLib, nAcme>>>>})]},
           {TRUE}, {"v64"})

\* The programs _generate_search_patterns is called for.
PatternNames == {e.name : e \in NameTable}

PatternPublishers == {e.publisher : e \in PublisherTable}

\* scan(program, False, False, False): the patterns are generated and no pass runs
InitPatterns ==
  /\ NoFaults
  /\ fs = FsPaths
  /\ reg = [st \in Stores |-> {}]
  /\ regcfg = [redirected |-> FALSE, defaultView |-> "v64", restricted |-> {}]
  /\ cl = [c \in Calls |-> Idle]
  /\ NoParse
  /\ NoOther
  /\ scanners = [o \in Objs |-> [leftovers |-> <<>>]]
  /\ \E name \in PatternNames, publisher \in PatternPublishers :
       sc = [c \in Calls |->
               IF c = "c1"
               THEN ScanCall("o1", [name |-> name, publisher |-> publisher],
                             FALSE, FALSE, FALSE)
               ELSE ScanIdle]

NextPatterns == \E c \in Calls : Scan_Start(c) \/ Scan_Return(c)

\* The strings _parse_registry_path is called with: every hive name of the
\* dict followed by a backslash and a subpath, and strings of other shapes.
ParseSubpaths ==
  {<<"k">>,
   <<"k", "\\", "a">>,
   <<"S", "o", "f", "t", "w", "a", "r", "e", "\\", "A", "c", "m", "e">>,
   <<>>,
   <<"\\", "k">>}

ParseInputs ==
  {hive_map_items[i][1] \o <<"\\">> \o sub : i \in 1..Len(hive_map_items), sub \in ParseSubpaths}
  \cup
  {<<"h", "k", "l", "m", "\\", "k">>,
   <<"H", "K", "L", "M">>,
   <<"H", "K", "L", "M", "/", "k">>,
   <<" ", "H", "K", "L", "M", "\\", "k">>,
   <<"H", "K", "E", "Y", "_", "B", "O", "G", "U", "S", "\\", "k">>,
   <<"k">>,
   <<>>,
   <<"H", "K", "E", "Y", "_", "L", "O", "C", "A", "L", "_", "M", "A", "C", "H", "I", "N", "E", "k">>,
   <<"C", "o", "m", "p", "u", "t", "e", "r", "\\", "H", "K", "E", "Y", "_", "L", "O", "C", "A", "L", "_", "M", "A", "C", "H", "I", "N", "E", "\\", "k">>,
   <<"H", "K", "L", "M", "\\">>,
   <<"H", "K", "E", "Y", "_", "U", "S", "E", "R", "\\", "k">>}

\* Two calls of _parse_registry_path.
InitParse ==
  /\ NoFaults
  /\ NoOther
  /\ fs = FsPaths
  /\ reg = [st \in Stores |-> {}]
  /\ regcfg = [redirected |-> FALSE, defaultView |-> "v64", restricted |-> {}]
  /\ cl = [c \in Calls |-> Idle]
  /\ sc = [c \in Calls |-> ScanIdle]
  /\ scanners = [o \in Objs |-> [leftovers |-> <<>>]]
  /\ pr \in [Calls -> {ParseCall(x) : x \in ParseInputs}]

\* scan() on filesystems and a registry in which an entry or a key fails when
\* it is examined
FaultLeaves ==
  {PF \o <<nAcme, nAcmeLog>>, PF \o <<nAcmeLog>>, PF \o <<nLib, nAcmeLog>>,
   PF \o <<nLib, nLib, nAcme>>, PF86 \o <<nAcme>>, PD \o <<nAcmeLog>>,
   UP \o <<nDesktop, nAcmeLnk>>,
   RO \o <<nMicrosoft, nWindows, nStartMenu, nPrograms, nAcmeLnk>>}

FaultKeys ==
  {<<"hklm", <<nSoftware, nLib, nAcme>>>>, <<"hklm", <<nSoftware, nLib, nLib>>>>,
   <<"hklm", <<nSoftware, nAcme>>>>}

FaultPrograms == {prog \in Programs : Len(prog.name) > 2 /\ Contains(ToLower(prog.name \o prog.publisher), <<"a", "c", "m", "e">>)}

InitScanFaults ==
  /\ fs \in {WithParents(S) : S \in SubsetsUpTo(FaultLeaves, MaxFaultPicks)}
  /\ reg = [st \in Stores |-> IF st = "v64" THEN KeysWithParents(FaultKeys)
                                ELSE KeysWithParents({})]
  /\ regcfg = [redirected |-> TRUE, defaultView |-> "v64", restricted |-> {}]
  /\ fscfg \in [denied : {{}},
                 faults : SubsetsUpTo([path : UNION {WithParents({q}) : q \in FaultLeaves},
                                       kind : FaultKinds], MaxFaults),
                 keyfaults : SubsetsUpTo(KeysWithParents(FaultKeys), MaxFaults)]
  /\ Cardinality(fscfg.faults) + Cardinality(fscfg.keyfaults) <= MaxFaults
  /\ \A f \in fscfg.faults :
       /\ f.path \in fs
       /\ \E r \in {PF, PF86, LO, RO, PD} : Len(f.path) > Len(r) /\ IsPrefix(r, f.path)
       /\ f.kind = "stat" => is_file(fs, f.path)
       /\ \A g \in fscfg.faults : g.path = f.path => g = f
  /\ \A k \in fscfg.keyfaults : Len(k[2]) > 1
  /\ cl = [c \in Calls |-> Idle]
  /\ NoParse
  /\ NoOther
  /\ scanners = [o \in Objs |-> [leftovers |-> <<>>]]
  /\ \E program \in FaultPrograms :
       sc = [c \in Calls |-> IF c = "c1" THEN ScanCall("o1", program, TRUE, TRUE, TRUE)
                              ELSE ScanIdle]

\* Two snapshots of at most MaxFiles files each, of the same four paths.
SnapshotPaths == {"test1", "test2", "test3", "test4"}
SnapshotStats == {<<1, "t1">>, <<2, "t1">>, <<1, "t2">>}
Snapshots ==
  {d \in SeqsUpTo(SnapshotPaths \X SnapshotStats, MaxFiles) :
     \A i, j \in 1..Len(d) : d[i][1] = d[j][1] => i = j}

NoScanNoClean ==
  /\ NoFaults
  /\ NoParse
  /\ sc = [c \in Calls |-> ScanIdle]
  /\ scanners = [o \in Objs |-> [leftovers |-> <<>>]]
  /\ fs = FsPaths
  /\ reg = [st \in Stores |-> {}]
  /\ regcfg = [redirected |-> FALSE, defaultView |-> "v64", restricted |-> {}]
  /\ cl = [c \in Calls |-> Idle]

InitCompare ==
  /\ NoScanNoClean
  /\ bg = MonitorNew
  /\ batch = BatchIdle
  /\ \E after \in Snapshots, before \in Snapshots : snap = CompareCall(after, before)

\* The monitor as constructed: stopped, no thread.
InitMonitor ==
  /\ NoScanNoClean
  /\ NoCompare
  /\ bg = MonitorNew
  /\ batch = BatchIdle

BatchPrograms == {"p1", "p2"}

InitBatch ==
  /\ NoScanNoClean
  /\ NoCompare
  /\ bg = MonitorNew
  /\ \E programs \in SeqsUpTo(BatchPrograms, MaxPrograms),
        create_backup \in BOOLEAN, scan_leftovers \in BOOLEAN,
        clean_leftovers \in BOOLEAN :
       batch = BatchCall(programs, create_backup, scan_leftovers, clean_leftovers)

vars == <<fs, reg, regcfg, cl, fscfg, sc, scanners, pr, snap, bg, batch>>

SpecClean == InitClean /\ [][NextClean]_vars
SpecReg == InitReg /\ [][NextClean]_vars
SpecScanFiles == InitScanFiles /\ [][NextScan]_vars
SpecScanReg == InitScanReg /\ [][NextScan]_vars
SpecScanFaults == InitScanFaults /\ [][NextScan]_vars
SpecScanNone == InitScanNone /\ [][NextScan]_vars
SpecPatterns == InitPatterns /\ [][NextPatterns]_vars
SpecParse == InitParse /\ [][NextParse]_vars
SpecInvalid == InitInvalid /\ [][NextClean]_vars
SpecSized == InitSized /\ [][NextClean]_vars
SpecScanTwo == InitScanTwo /\ [][NextScan]_vars
SpecScanDepth == InitScanDepth /\ [][NextScan]_vars

SpecCompare == InitCompare /\ [][NextCompare]_vars
SpecMonitor == InitMonitor /\ [][NextMonitor]_vars
SpecBatch == InitBatch /\ [][NextBatch]_vars

\* A call of clean() on a registry with restrictive ACLs, or a call of scan()
\* on a machine where an entry or a key fails when it is examined.
InitHandles == InitReg \/ InitScanFaults
NextHandles == NextClean \/ NextScan
SpecHandles == InitHandles /\ [][NextHandles]_vars

\* The process keeps running: a call of clean() that can take a step takes it.
SpecRegLive == SpecReg /\ WF_vars(NextClean)

(***************************************************************************)
(* Properties of clean().                                                  *)
(***************************************************************************)
Kinds == {"shortcut", "file", "directory", "registry"}

Rank(kind) ==
  CASE kind = "shortcut" -> 1
    [] kind = "file" -> 2
    [] kind = "directory" -> 3
    [] kind = "registry" -> 4

OfKind(leftovers, kind) ==
  LET IsKind(l) == l.type = kind
  IN SelectSeq(leftovers, IsKind)

\* The leftovers handed to the delete calls the log records, in call order.
DeleteCalls(log) ==
  LET IsDelete(e) == e.op = "delete"
      d == SelectSeq(log, IsDelete)
  IN [i \in 1..Len(d) |-> d[i].arg]

CallsOf(log, op) == {i \in 1..Len(log) : log[i].op = op}

Count(seq, x) == Cardinality({i \in 1..Len(seq) : seq[i] = x})

AllOfKinds(leftovers) == \A i \in 1..Len(leftovers) : leftovers[i].type \in Kinds

\* Every leftover of the four kinds got as many delete calls as it has
\* occurrences in the input list.
Attempted(s) ==
  \A i \in 1..Len(s.leftovers) :
    s.leftovers[i].type \in Kinds =>
      Count(DeleteCalls(s.log), s.leftovers[i]) = Count(s.leftovers, s.leftovers[i])

\* C1: at any moment of clean(), the delete calls made so far are ordered
\* Shortcut, File, Directory, Registry (no call for a later kind precedes a
\* call for an earlier kind), and the calls for one kind follow the input list.
C1_DeleteOrder ==
  \A c \in Calls :
    LET d == DeleteCalls(cl[c].log)
    IN /\ \A i, j \in 1..Len(d) : i < j => Rank(d[i].type) <= Rank(d[j].type)
       /\ \A k \in Kinds : IsPrefix(OfKind(d, k), OfKind(cl[c].leftovers, k))

\* clean() has returned for a list that names a registry key first and then
\* two files, and has made its three delete calls.
C1_Witness ==
  /\ cl["c1"].pc = "done"
  /\ cl["c1"].leftovers = <<LK, LF2, LF1>>
  /\ DeleteCalls(cl["c1"].log) = <<LF2, LF1, LK>>

\* C2: with backup enabled and a File or Directory leftover in the list, the
\* log of clean() never holds more than one backup_files call, its argument is
\* the paths of all File leftovers followed by those of all Directory
\* leftovers, it is in the log before any delete call, and once clean() has
\* returned (whatever backup_files returned, None included) every leftover has
\* had its delete call.
C2_BackupFilesOnce ==
  \A c \in Calls :
    LET s == cl[c]
        expected == Paths(OfKind(s.leftovers, "file"))
                    \o Paths(OfKind(s.leftovers, "directory"))
        backups == CallsOf(s.log, "backup_files")
        deletes == CallsOf(s.log, "delete")
    IN s.create_backup /\ expected # <<>> =>
         /\ Cardinality(backups) <= 1
         /\ \A i \in backups : s.log[i].arg = expected
         /\ (deletes # {} \/ s.pc = "done") => Cardinality(backups) = 1
         /\ \A i \in backups, j \in deletes : i < j
         /\ s.pc = "done" => Attempted(s)

\* backup_files returned None for a directory and a file, and all three
\* leftovers were handed to a delete call afterwards.
C2_Witness ==
  /\ cl["c1"].pc = "done"
  /\ cl["c1"].create_backup
  /\ cl["c1"].leftovers = <<LD1, LS1, LF1>>
  /\ cl["c1"].log[1] = [op |-> "backup_files", arg |-> <<LF1.path, LD1.path>>,
                        ret |-> None]
  /\ Len(DeleteCalls(cl["c1"].log)) = 3

\* The (path, message) pairs of the delete calls that returned failure, in
\* call order.
Failures(outcomes) ==
  LET Failed(o) == ~o.ok
      f == SelectSeq(outcomes, Failed)
  IN [i \in 1..Len(f) |-> <<f[i].item.path, f[i].err>>]

Successes(outcomes) == Cardinality({i \in 1..Len(outcomes) : outcomes[i].ok})

\* C3: when clean() is called again on a list whose leftovers are all absent
\* (from the filesystem and from every view of the registry) at the start of
\* the second call, the second call removes nothing and its result counts
\* every item as deleted: deleted_items == total_items and failed_items == 0.
C3_SecondCleanCountsAll ==
  \A c \in Calls :
    LET s == cl[c]
    IN s.pc = "done" /\ s.runs >= 2 /\ s.absent_before =>
         /\ s.removed = <<>>
         /\ s.result.failed_items = 0
         /\ s.result.deleted_items = s.result.total_items

\* C3 as the specification states it: the second result has
\* deleted_items == 0 and failed_items == 0.
C3_SecondCleanCountsNone ==
  \A c \in Calls :
    LET s == cl[c]
    IN s.pc = "done" /\ s.runs >= 2 /\ s.absent_before =>
         /\ s.result.deleted_items = 0
         /\ s.result.failed_items = 0

\* The first call removed a file, a directory and a registry key, and the
\* second call on the same list has returned.
C3_Witness ==
  /\ cl["c1"].pc = "done"
  /\ cl["c1"].runs = 2
  /\ cl["c1"].absent_before
  /\ cl["c1"].leftovers = <<LK, LD1, LF1>>
  /\ Len(cl["c1"].removed_before) = 3

\* C4: when clean() returns for a list of File, Directory, Registry and
\* Shortcut leftovers, every leftover has had its delete call, total_items is
\* the length of the list, deleted_items + failed_items == total_items,
\* deleted_items is the number of delete calls that succeeded and errors is
\* the (path, message) pairs of the delete calls that failed, in call order.
C4_Accounting ==
  \A c \in Calls :
    LET s == cl[c]
        r == s.result
    IN s.pc = "done" /\ AllOfKinds(s.leftovers) =>
         /\ Attempted(s)
         /\ [i \in 1..Len(s.outcomes) |-> s.outcomes[i].item] = DeleteCalls(s.log)
         /\ r.total_items = Len(s.leftovers)
         /\ r.deleted_items + r.failed_items = r.total_items
         /\ r.deleted_items = Successes(s.outcomes)
         /\ r.errors = Failures(s.outcomes)

\* The first and the last of three delete calls failed, the one in between
\* succeeded.
C4_Witness ==
  /\ cl["c1"].pc = "done"
  /\ cl["c1"].leftovers = <<LD1, LF1, LS1>>
  /\ cl["c1"].result.errors = <<<<LS1.path, "Permission denied">>,
                                <<LD1.path, "OSError">>>>
  /\ cl["c1"].result.deleted_items = 1

\* C5: no call of clean() ends in an exception of the backup step; with backup
\* enabled, whatever backup_files and backup_registry_key returned, once the
\* deletions begin every Registry leftover with a valid path has been handed
\* to backup_registry_key, one call each in list order, and once clean() has
\* returned every leftover has had its delete call.
C5_BackupFailureNoStop ==
  \A c \in Calls :
    LET s == cl[c]
        Valid(l) == Parsed(_parse_registry_path(l.path))
        IsOffer(e) == e.op = "backup_registry_key"
    IN /\ s.pc # "raised"
       /\ s.create_backup /\ s.pc \in {"delete", "reg", "done"} /\ s.runs >= 1 =>
            LET o == SelectSeq(s.log, IsOffer)
            IN [i \in 1..Len(o) |-> o[i].arg]
                 = Paths(SelectSeq(OfKind(s.leftovers, "registry"), Valid))
       /\ s.create_backup /\ s.pc = "done" => Attempted(s)

\* backup_files and the first backup_registry_key both came back with None,
\* the second registry leftover was still offered for backup, and all three
\* leftovers were handed to a delete call.
C5_Witness ==
  /\ cl["c1"].pc = "done"
  /\ cl["c1"].create_backup
  /\ cl["c1"].leftovers = <<LK, LF1, LK>>
  /\ Len(cl["c1"].log) = 6
  /\ cl["c1"].log[1].op = "backup_files" /\ cl["c1"].log[1].ret = None
  /\ cl["c1"].log[2].op = "backup_registry_key" /\ cl["c1"].log[2].ret = None
  /\ cl["c1"].log[3].op = "backup_registry_key"
  /\ DeleteCalls(cl["c1"].log) = <<LF1, LK, LK>>

\* C6: a recursive registry deletion in which the deletion of a subkey has
\* failed goes on and clean() returns.
C6_ReturnsAfterFailedSubkey ==
  \A c \in Calls :
    (cl[c].pc = "reg" /\ \E i \in 1..Len(cl[c].stack) : cl[c].stack[i].failed # {})
      ~> (cl[c].pc = "done")

\* The key <<hive, path>> and everything beneath it.
Tree(key) == {k \in RegKeys : k[1] = key[1] /\ IsPrefix(key[2], k[2])}

KeyOf(leftover) ==
  LET p == _parse_registry_path(leftover.path)
  IN <<p.hive[1], p.path[1]>>

C8_DeletedMeansAbsent ==
  \A c \in Calls :
    LET s == cl[c]
        o == Last(s.outcomes)
    IN ( /\ s.pc \in {"delete", "done"}
         /\ s.outcomes # <<>>
         /\ o.item.type = "registry"
         /\ o.ok ) =>
         Absent(o.item)


(***************************************************************************)
(* Properties of scan()                                                    *)
(***************************************************************************)
Scans == {sc[c] : c \in Calls}

\* pattern in name.lower(), written out
NameHas(name, patterns) == \E p \in patterns : Contains(ToLower(name), p)

ProperPrefix(p, q) == Len(p) < Len(q) /\ SubSeq(q, 1, Len(p)) = p

FoundOf(s, types) == {s.found[i] : i \in {j \in 1..Len(s.found) : s.found[j].item.type \in types}}

TimesFound(s, type, path) ==
  Cardinality({i \in 1..Len(s.found) :
                 s.found[i].item.type = type /\ s.found[i].item.path = path})

FilePassOver(s) == s.scan_files /\ s.pc \in {"registry", "shortcuts", "return", "done"}

ScanRoots == {PF, PF86, LO, RO, PD}

\* The file pass comes to examine the entry q: q is at most three levels below
\* a scan root, and the directories between the root and q can be listed and
\* have names that hold no pattern.
Examined(s, q) ==
  \E r \in ScanRoots :
    /\ ProperPrefix(r, q)
    /\ Len(q) - Len(r) <= 3
    /\ r \notin fscfg.denied
    /\ \A n \in (Len(r) + 1)..(Len(q) - 1) :
         /\ SubSeq(q, 1, n) \notin fscfg.denied
         /\ ~NameHas(q[n], s.patterns)

\* C9: in the file pass a directory whose name holds a pattern is recorded as
\* one Directory leftover and is never listed, and no File or Directory
\* leftover is recorded for anything beneath it; once the pass is over every
\* such directory the pass examined has exactly one Directory leftover, and
\* scan() returns what was recorded.
C9_AtomicMatchFiles ==
  \A s \in Scans :
    /\ \A d \in FoundOf(s, {"directory"}) :
         /\ NameHas(Last(d.item.path), s.patterns)
         /\ TimesFound(s, "directory", d.item.path) = 1
         /\ \A l \in s.listed : l.at # d.item.path
         /\ \A g \in FoundOf(s, {"file", "directory"}) :
              ~ProperPrefix(d.item.path, g.item.path)
    /\ FilePassOver(s) =>
         \A q \in fs :
           (is_dir(fs, q) /\ NameHas(Last(q), s.patterns) /\ Examined(s, q))
             => TimesFound(s, "directory", q) = 1
    /\ s.pc = "done" =>
         s.result = [i \in 1..Len(s.found) |-> s.found[i].item]

\* scan() has returned the one Directory leftover of a directory that holds an
\* entry whose name has a pattern and one whose name has none.
C9_Witness ==
  \E s \in Scans :
    /\ s.pc = "done"
    /\ \E d \in FoundOf(s, {"directory"}) :
         /\ \E q \in Children(fs, d.item.path) : NameHas(Last(q), s.patterns)
         /\ \E q \in Children(fs, d.item.path) : ~NameHas(Last(q), s.patterns)
         /\ {f.item : f \in FoundOf(s, {"file", "directory"})} = {d.item}
         /\ \E i \in 1..Len(s.result) : s.result[i] = d.item

\* The key a Registry leftover names, as the hive and the key path.
KeysFound(s, unit) ==
  {f.item.path : f \in {g \in FoundOf(s, {"registry"}) : g.unit = unit}}

KeyName(hive, key_path) == <<_get_hive_name(hive)>> \o key_path

RegistryPassOver(s) == s.scan_registry /\ s.pc \in {"shortcuts", "return", "done"}

\* C10: in the registry pass a subkey whose name holds a pattern is recorded
\* as a Registry leftover and is never opened, so that in the walk of one base
\* key no recorded key lies beneath another; a key is opened only at depth 0,
\* 1 or 2 below the base key, and below the base key only if its name holds
\* no pattern; once the pass is over every subkey of an opened key is recorded
\* if its name holds a pattern and, if it does not, was opened when its parent
\* was above depth 2 and it could be opened.
C10_AtomicMatchRegistry ==
  \A s \in Scans :
    /\ \A f \in FoundOf(s, {"registry"}) :
         /\ NameHas(Last(f.item.path), s.patterns)
         /\ \A o \in s.opened :
              o.unit = f.unit => KeyName(o.at[1], o.at[2]) # f.item.path
         /\ \A g \in KeysFound(s, f.unit) : ~ProperPrefix(f.item.path, g)
    /\ \A o \in s.opened :
         /\ o.depth \in {0, 1, 2}
         /\ o.depth = Len(o.at[2]) - Len(registry_paths[o.unit][2])
         /\ o.depth > 0 => ~NameHas(Last(o.at[2]), s.patterns)
    /\ RegistryPassOver(s) =>
         \A o \in s.opened :
           \A name \in ListedSubkeys(reg, o.at[1], o.at[2]) :
             LET child == Append(o.at[2], name)
                 isopened == \E x \in s.opened : x.unit = o.unit /\ x.at = <<o.at[1], child>>
             IN IF NameHas(name, s.patterns)
                THEN KeyName(o.at[1], child) \in KeysFound(s, o.unit)
                ELSE isopened <=> (o.depth < 2 /\ OpenKeyDefault(reg, o.at[1], child) = "ok")

\* scan() has returned after recording a key that has a subkey whose name
\* holds a pattern, and after recording a key two levels below a base key.
C10_Witness ==
  \E s \in Scans :
    /\ s.pc = "done"
    /\ \E f \in FoundOf(s, {"registry"}) :
         \E k \in reg[Store("default")] :
           /\ KeyName(k[1], k[2]) = f.item.path
           /\ \E name \in SubkeyNames(reg, Store("default"), k[1], k[2]) :
                NameHas(name, s.patterns)
           /\ \E i \in 1..Len(s.result) : s.result[i] = f.item


\* Access failures of the kinds the file pass expects.
AccessKinds == {"PermissionError", "OSError", "FileNotFoundError", "stat"}

OnlyAccessFaults == \A f \in fscfg.faults : f.kind \in AccessKinds

\* The entry q can be reached and examined: the file pass comes to it and no
\* directory between the scan root and q fails.
Accessible(s, q) ==
  /\ Examined(s, q)
  /\ \A n \in 1..(Len(q) - 1) : FaultAt(SubSeq(q, 1, n)) = ""

TimesFoundAt(s, path) ==
  Cardinality({i \in 1..Len(s.found) :
                 s.found[i].item.type \in {"file", "directory"}
                 /\ s.found[i].item.path = path})

\* C11: when entries of the scanned directories fail with a permission error,
\* another OSError, by having vanished or in stat(), no walk of a scan root is
\* given up and no failed entry is recorded as more than it is; once the file
\* pass is over, every entry whose name holds a pattern, that the pass can
\* reach within three levels of a scan root and that does not fail itself has
\* exactly one leftover of its kind (a file whose stat() fails has one without
\* a size), whatever failed beside it or in another directory.
C11_AccessFailureSkipsEntry ==
  \A s \in Scans :
    OnlyAccessFaults =>
      /\ \A a \in s.aborted : a.pass # "files"
      /\ \A f \in fscfg.faults :
           f.kind \in {"PermissionError", "OSError", "FileNotFoundError"}
             => TimesFoundAt(s, f.path) = 0
      /\ FilePassOver(s) =>
           \A q \in fs :
             (NameHas(Last(q), s.patterns) /\ Accessible(s, q)
              /\ FaultAt(q) \in {"", "stat"})
               => /\ TimesFoundAt(s, q) = 1
                  /\ \E f \in FoundOf(s, {"file", "directory"}) :
                       /\ f.item.path = q
                       /\ f.item.type = IF IsFileName(Last(q)) THEN "file" ELSE "directory"
                       /\ FaultAt(q) = "stat" => f.item.size = None

\* scan() has returned after an entry whose name holds a pattern failed, with
\* the leftover of another entry of the same directory and the leftover of an
\* entry of a later scan root.
C11_Witness ==
  \E s \in Scans :
    /\ s.pc = "done"
    /\ OnlyAccessFaults
    /\ \E f \in fscfg.faults :
         /\ f.kind \in {"PermissionError", "OSError", "FileNotFoundError"}
         /\ NameHas(Last(f.path), s.patterns)
         /\ \E i, j \in 1..Len(s.result) :
              /\ Front(s.result[i].path) = Front(f.path)
              /\ s.result[j].type \in {"file", "directory"}
              /\ SubSeq(s.result[j].path, 1, 1) # SubSeq(f.path, 1, 1)


\* Nothing at or beneath the entry q raises an exception that is not an OSError.
Unpoisoned(q) == \A f \in fscfg.faults : f.kind = "Unexpected" => ~IsPrefix(q, f.path)

\* The registry pass comes to the key k in the walk of base key number u: k is
\* at most three levels below the base key, the keys between have names that
\* hold no pattern, and opening none of them raises.
KeyReached(s, u, k) ==
  LET base == registry_paths[u]
  IN /\ k[1] = base[1]
     /\ ProperPrefix(base[2], k[2])
     /\ Len(k[2]) - Len(base[2]) <= 3
     /\ OpenKeyDefault(reg, k[1], k[2]) = "ok"
     /\ \A n \in (Len(base[2]) + 1)..(Len(k[2]) - 1) :
          /\ ~NameHas(k[2][n], s.patterns)
          /\ <<k[1], SubSeq(k[2], 1, n)>> \notin fscfg.keyfaults

\* C12: an exception that is not an OSError, raised while one entry or one
\* subkey is examined, ends the scan of that entry or subkey only: once the
\* file pass is over every other reachable entry whose name holds a pattern
\* is recorded, and once the registry pass is over every reachable key whose
\* name holds a pattern is recorded in the walk of its base key.
C12_UnexpectedCaughtPerUnit ==
  \A s \in Scans :
    /\ FilePassOver(s) =>
         \A q \in fs :
           (NameHas(Last(q), s.patterns) /\ Accessible(s, q) /\ FaultAt(q) \in {"", "stat"}
            /\ Unpoisoned(q))
             => TimesFoundAt(s, q) >= 1
    /\ RegistryPassOver(s) =>
         \A u \in 1..Len(registry_paths) :
           \A k \in reg[Store("default")] :
             (NameHas(Last(k[2]), s.patterns) /\ KeyReached(s, u, k))
               => KeyName(k[1], k[2]) \in KeysFound(s, u)


\* No name on the machine holds a pattern of the call s.
NothingHas(s) ==
  /\ \A q \in fs : \A n \in 1..Len(q) : ~NameHas(q[n], s.patterns)
  /\ \A st \in Stores : \A k \in reg[st] : \A n \in 1..Len(k[2]) :
       ~NameHas(k[2][n], s.patterns)

\* C13: a program whose name and publisher are shorter than three characters
\* (or empty) yields no pattern; a call that has no pattern, or whose patterns
\* no name on the machine holds, records nothing, gives up no walk and
\* returns the empty list.
C13_NoPatternNoResult ==
  \A s \in Scans :
    s.pc \notin {"idle", "start"} =>
      /\ (Len(s.program.name) < 3 /\ Len(s.program.publisher) < 3) => s.patterns = {}
      /\ (s.patterns = {} \/ NothingHas(s)) =>
           /\ s.found = <<>>
           /\ scanners[s.obj].leftovers = <<>>
           /\ s.aborted = {}
           /\ s.pc = "done" => s.result = <<>>

\* scan() has returned for a program that yields no pattern, after the three
\* passes went over a machine with files, keys and shortcuts.
C13_Witness ==
  \E s \in Scans :
    /\ s.pc = "done"
    /\ s.patterns = {}
    /\ s.result = <<>>
    /\ \E l \in s.listed : Children(fs, l.at) # {}
    /\ \E o \in s.opened : ListedSubkeys(reg, o.at[1], o.at[2]) # {}
    /\ \E w \in s.walked : \E q \in Children(fs, w.at) : EndsWith(ToLower(Last(q)), dotLnk)


NameEntry(name) == CHOOSE e \in NameTable : e.name = name

PublisherEntry(publisher) == CHOOSE e \in PublisherTable : e.publisher = publisher

IsLowerCase(str) == \A i \in 1..Len(str) : \A j \in 1..Len(Upper) : str[i] # Upper[j]

\* C14: the patterns generated for a program are exactly the strings of at
\* least three characters among the lower-cased name, the lower-cased name
\* without its version tokens, and the lower-cased publisher, as Python
\* computes them; every pattern is lower-case and at least 3 characters long.
C14_PatternGeneration ==
  \A s \in Scans :
    s.pc \notin {"idle", "start"} =>
      LET n == NameEntry(s.program.name)
          p == PublisherEntry(s.program.publisher)
      IN /\ s.patterns = {x \in {n.lower, n.stripped, p.lower} : Len(x) >= 3}
         /\ \A x \in s.patterns : IsLowerCase(x) /\ Len(x) >= 3

\* The patterns of a name with a trailing version and a publisher have been
\* generated: the full name, the stripped name and the publisher.
C14_Witness ==
  \E s \in Scans :
    /\ s.pc = "done"
    /\ s.program.name = <<"A", "c", "m", "e", " ", "2", ".", "0">>
    /\ s.program.publisher = <<"Z", "e", "d">>
    /\ s.patterns = {<<"a", "c", "m", "e", " ", "2", ".", "0">>, <<"a", "c", "m", "e">>,
                      <<"z", "e", "d">>}


\* The hive aliases, their full names and the hives they stand for.
AliasPairs ==
  {
   [alias |-> <<"H", "K", "L", "M">>,
    full |-> <<"H", "K", "E", "Y", "_", "L", "O", "C", "A", "L", "_", "M", "A", "C", "H", "I", "N", "E">>,
    hive |-> "hklm"],
   [alias |-> <<"H", "K", "C", "U">>,
    full |-> <<"H", "K", "E", "Y", "_", "C", "U", "R", "R", "E", "N", "T", "_", "U", "S", "E", "R">>,
    hive |-> "hkcu"],
   [alias |-> <<"H", "K", "C", "R">>,
    full |-> <<"H", "K", "E", "Y", "_", "C", "L", "A", "S", "S", "E", "S", "_", "R", "O", "O", "T">>,
    hive |-> "hkcr"],
   [alias |-> <<"H", "K", "U">>,
    full |-> <<"H", "K", "E", "Y", "_", "U", "S", "E", "R", "S">>,
    hive |-> "hku"],
   [alias |-> <<"H", "K", "C", "C">>,
    full |-> <<"H", "K", "E", "Y", "_", "C", "U", "R", "R", "E", "N", "T", "_", "C", "O", "N", "F", "I", "G">>,
    hive |-> "hkcc"]}

Backslash == <<"\\">>

\* What follows the n first characters and one more.
After(str, n) == SubSeq(str, n + 2, Len(str))

\* C15: when one call parses an alias, a backslash and a subpath and another
\* call parses the full hive name, a backslash and the same subpath, both
\* return the same pair: the hive the two names stand for, and the subpath.
C15_AliasSameAsFullName ==
  \A c, d \in Calls :
    (pr[c].pc = "done" /\ pr[d].pc = "done") =>
      \A a \in AliasPairs :
        (/\ StartsWith(pr[c].key_path, a.alias \o Backslash)
         /\ StartsWith(pr[d].key_path, a.full \o Backslash)
         /\ After(pr[c].key_path, Len(a.alias)) = After(pr[d].key_path, Len(a.full)))
          => /\ pr[c].result = pr[d].result
             /\ pr[c].result = [hive |-> Some(a.hive),
                                path |-> Some(After(pr[c].key_path, Len(a.alias)))]

\* HKLM\Software\Acme and HKEY_LOCAL_MACHINE\Software\Acme have been parsed.
C15_Witness ==
  /\ pr["c1"].pc = "done"
  /\ pr["c2"].pc = "done"
  /\ pr["c1"].key_path = <<"H", "K", "L", "M">> \o Backslash
                           \o <<"S", "o", "f", "t", "w", "a", "r", "e">> \o Backslash
                           \o <<"A", "c", "m", "e">>
  /\ pr["c2"].key_path = <<"H", "K", "E", "Y", "_", "L", "O", "C", "A", "L", "_",
                            "M", "A", "C", "H", "I", "N", "E">> \o Backslash
                           \o <<"S", "o", "f", "t", "w", "a", "r", "e">> \o Backslash
                           \o <<"A", "c", "m", "e">>
  /\ pr["c1"].result = pr["c2"].result
  /\ pr["c1"].result.hive = Some("hklm")


\* The string a path of names stands for: the names with a backslash between
\* two of them.
RECURSIVE JoinPath(_)
JoinPath(path) ==
  IF path = <<>> THEN <<>>
  ELSE IF Len(path) = 1 THEN path[1]
  ELSE path[1] \o Backslash \o JoinPath(Tail(path))

CanonicalHiveNames == {a.full : a \in AliasPairs}

\* C16: the path of every Registry leftover the scanner records is a canonical
\* hive name, a backslash and a key path; the parser of the cleaner maps it to
\* the hive and the key path of a subkey the scanner enumerated under a key it
\* opened, never to an invalid path; the name of that hive, a backslash and
\* that key path are the recorded string again.
C16_RegistryPathRoundTrip ==
  \A s \in Scans :
    \A f \in FoundOf(s, {"registry"}) :
      LET str == JoinPath(f.item.path)
          p == parse_registry_path(str)
      IN /\ \E h \in CanonicalHiveNames : StartsWith(str, h \o Backslash)
         /\ ~invalid_registry_path(p)
         /\ \E o \in s.opened :
              /\ o.unit = f.unit
              /\ p.hive = Some(o.at[1])
              /\ \E name \in ListedSubkeys(reg, o.at[1], o.at[2]) :
                   p.path = Some(JoinPath(Append(o.at[2], name)))
         /\ get_hive_name(p.hive[1]) \o Backslash \o p.path[1] = str

\* scan() has returned a key of HKEY_CURRENT_USER and a key two levels below
\* HKEY_LOCAL_MACHINE\Software, both parsed back to their hive.
C16_Witness ==
  \E s \in Scans :
    /\ s.pc = "done"
    /\ \E f, g \in FoundOf(s, {"registry"}) :
         /\ parse_registry_path(JoinPath(f.item.path)).hive = Some("hkcu")
         /\ parse_registry_path(JoinPath(g.item.path)).hive = Some("hklm")
         /\ Len(g.item.path) >= 4
         /\ \E i, j \in 1..Len(s.result) : s.result[i] = f.item /\ s.result[j] = g.item


\* The hive names a registry path may start with.
KnownHiveNames ==
  {"HKEY_LOCAL_MACHINE", "HKLM", "HKEY_CURRENT_USER", "HKCU", "HKEY_CLASSES_ROOT",
   "HKCR", "HKEY_USERS", "HKU", "HKEY_CURRENT_CONFIG", "HKCC"}

\* The path does not start with a known hive name followed by a backslash, or
\* nothing follows the backslash.
InvalidRegistryPath(path) ==
  Len(path) < 2 \/ path[1] \notin KnownHiveNames \/ Tail(path) = <<"">>

InvalidLeftover(l) == l.type = "registry" /\ InvalidRegistryPath(l.path)

\* C17: the delete call of a Registry leftover whose path does not start with
\* a known hive name and a backslash, or has nothing after the backslash,
\* returns failure with 'Invalid registry path' and hands no key to OpenKey or
\* to a deletion; the recursion is never entered for such a leftover; once
\* clean() has returned, every leftover of the list has had its delete call,
\* errors holds one ('path', 'Invalid registry path') entry per occurrence of
\* such a leftover, every other Registry leftover had its key probed, and
\* deleted_items and failed_items count the outcomes of all the calls.
C17_InvalidPathFailsAlone ==
  \A c \in Calls :
    LET s == cl[c]
        msg == "Invalid registry path"
    IN /\ \A i \in 1..Len(s.outcomes) :
            InvalidLeftover(s.outcomes[i].item) =>
              /\ ~s.outcomes[i].ok
              /\ s.outcomes[i].err = msg
              /\ \A e \in s.regops : e.call # i
       /\ s.pc = "reg" => ~InvalidLeftover(Item(s))
       /\ \A e \in s.regops : e.call <= Len(s.outcomes) \/ s.pc = "reg"
       /\ s.pc = "done" =>
            /\ Attempted(s)
            /\ Len(s.outcomes) = Len(s.leftovers)
            /\ \A i \in 1..Len(s.leftovers) :
                 InvalidLeftover(s.leftovers[i]) =>
                   Count(s.result.errors, <<s.leftovers[i].path, msg>>)
                     = Count(s.leftovers, s.leftovers[i])
            /\ \A i \in 1..Len(s.outcomes) :
                 LET l == s.outcomes[i].item
                 IN l.type = "registry" /\ ~InvalidLeftover(l) =>
                      /\ s.outcomes[i].err # msg
                      /\ \E e \in s.regops : e.call = i /\ e.op = "OpenKey"
            /\ s.result.failed_items = Len(s.outcomes) - Successes(s.outcomes)
            /\ s.result.deleted_items = Successes(s.outcomes)

\* clean() has returned for a list that holds an unknown hive, a key that it
\* deleted and a path with nothing after the hive name.
C17_Witness ==
  /\ cl["c1"].pc = "done"
  /\ cl["c1"].leftovers = <<LBad, LK, LEmptySub>>
  /\ cl["c1"].result.errors = <<<<LBad.path, "Invalid registry path">>,
                                <<LEmptySub.path, "Invalid registry path">>>>
  /\ cl["c1"].result.deleted_items = 1
  /\ \E e \in cl["c1"].regops : e.call = 2 /\ e.op = "DeleteKey"


\* The sizes of the File and Directory leftovers of known size among the
\* delete calls that succeeded, added up.
RECURSIVE SizeOfDeletedFiles(_)
SizeOfDeletedFiles(outcomes) ==
  IF outcomes = <<>> THEN 0
  ELSE LET o == outcomes[1]
       IN (IF o.ok /\ o.item.type \in {"file", "directory"} /\ o.item.size # None
           THEN o.item.size[1] ELSE 0)
          + SizeOfDeletedFiles(Tail(outcomes))

\* C18: once clean() has returned, size_freed is the sum of the sizes of the
\* File and Directory leftovers of known size whose delete call succeeded;
\* Registry and Shortcut leftovers and failed calls add nothing.
C18_SizeFreedFilesOnly ==
  \A c \in Calls :
    cl[c].pc = "done" => cl[c].result.size_freed = SizeOfDeletedFiles(cl[c].outcomes)


\* C19: every Shortcut leftover is a link file whose name holds a pattern and
\* that lies directly in the shortcut directory in whose walk it was recorded,
\* never in a subdirectory of it.
C19_ShortcutPassNotRecursive ==
  \A s \in Scans :
    \A f \in FoundOf(s, {"shortcut"}) :
      /\ EndsWith(ToLower(Last(f.item.path)), dotLnk)
      /\ NameHas(Last(f.item.path), s.patterns)
      /\ Front(f.item.path) = s.sdirs[f.unit]


\* C20: a call of scan() returns the leftovers it recorded itself, in the
\* order it recorded them, and nothing else, whatever another call of scan()
\* did in between on another scanner object or on the same one.
C20_OwnAccumulator ==
  \A c \in Calls :
    sc[c].pc = "done" =>
      sc[c].result = [i \in 1..Len(sc[c].found) |-> sc[c].found[i].item]


\* The names between the place a walk started at and the last name of q.
Intermediates(start, q) == {q[n] : n \in (Len(start) + 1)..(Len(q) - 1)}

\* C22: the file pass lists a directory only at depth 0, 1 or 2 below its scan
\* root and the registry pass opens a key only at depth 0, 1 or 2 below its
\* base key, so that an examined entry or subkey has at most 2 directories or
\* keys between it and the scan root or base key; every File, Directory and
\* Registry leftover has at most 2 of them, and none of them has a name that
\* holds a pattern.
C22_DepthBound ==
  \A s \in Scans :
    /\ \A l \in s.listed :
         /\ l.depth \in 0..2
         /\ IsPrefix(s.roots[l.unit], l.at)
         /\ l.depth = Len(l.at) - Len(s.roots[l.unit])
    /\ \A o \in s.opened :
         /\ o.depth \in 0..2
         /\ IsPrefix(registry_paths[o.unit][2], o.at[2])
         /\ o.depth = Len(o.at[2]) - Len(registry_paths[o.unit][2])
    /\ \A f \in FoundOf(s, {"file", "directory"}) :
         LET root == s.roots[f.unit]
         IN /\ ProperPrefix(root, f.item.path)
            /\ Cardinality((Len(root) + 1)..(Len(f.item.path) - 1)) <= 2
            /\ \A name \in Intermediates(root, f.item.path) : ~NameHas(name, s.patterns)
    /\ \A f \in FoundOf(s, {"registry"}) :
         LET base == KeyName(registry_paths[f.unit][1], registry_paths[f.unit][2])
         IN /\ ProperPrefix(base, f.item.path)
            /\ Cardinality((Len(base) + 1)..(Len(f.item.path) - 1)) <= 2
            /\ \A name \in Intermediates(base, f.item.path) : ~NameHas(name, s.patterns)

\* scan() has returned: it recorded a directory and a key that each lie behind
\* two intermediate levels, and left a matching file behind three unvisited.
C22_Witness ==
  \E s \in Scans :
    /\ s.pc = "done"
    /\ PF \o <<nLib, nLib, nLib, nAcmeLog>> \in fs
    /\ NameHas(nAcmeLog, s.patterns)
    /\ ~NameHas(nLib, s.patterns)
    /\ \E f \in FoundOf(s, {"directory"}) : f.item.path = PF \o <<nLib, nLib, nAcme>>
    /\ \E f \in FoundOf(s, {"registry"}) :
         f.item.path = KeyName("hklm", <<nSoftware, nLib, nLib, nAcme>>)
    /\ \A f \in FoundOf(s, {"file"}) :
         f.item.path # PF \o <<nLib, nLib, nLib, nAcmeLog>>


\* The views in the order of their priority.
ViewOrder == <<"KEY_WOW64_64KEY", "KEY_WOW64_32KEY", "default">>

\* The messages of the two failures of a recursive deletion.
CouldNotOpen == "Could not open registry key with any access level"
CouldNotDelete == "Could not delete registry key"

\* What one step of the recursive deletion of call c does to the key on top
\* of its stack.
C23_Step(c) ==
  LET s == cl[c]
      t == cl'[c]
      f == Last(s.stack)
      key == <<f.hive, f.path>>
      Opens(flag) == OpenKey(reg, f.hive, f.path, "KEY_ALL_ACCESS", flag) = "ok"
      Deletes(flag) == DeleteKeyEx(reg, f.hive, f.path, flag) = "ok"
      First(P(_)) == IF P(ViewOrder[1]) THEN ViewOrder[1]
                     ELSE IF P(ViewOrder[2]) THEN ViewOrder[2]
                     ELSE IF P(ViewOrder[3]) THEN ViewOrder[3]
                     ELSE "none"
      Fails(msg) ==
        IF Len(s.stack) = 1
        THEN /\ t.pc = "delete"
             /\ t.outcomes = Append(s.outcomes,
                                     [item |-> Item(s), ok |-> FALSE, err |-> msg])
             /\ t.result.failed_items = s.result.failed_items + 1
        ELSE /\ Len(t.stack) = Len(s.stack) - 1
             /\ Last(f.path) \in Last(t.stack).failed
  IN (s.pc = "reg" /\ t # s) =>
       IF f.phase = "open"
       THEN /\ reg' = reg
            /\ \A e \in t.regops \ s.regops : e.op = "OpenKey" /\ e.key = key
            /\ IF First(Opens) # "none"
               THEN t.stack = [s.stack EXCEPT ![Len(s.stack)] =
                                 [f EXCEPT !.flag = First(Opens), !.phase = "enum"]]
               ELSE Fails(CouldNotOpen)
       ELSE IF f.phase = "del"
       THEN IF First(Deletes) # "none"
            THEN reg' = [reg EXCEPT ![Store(First(Deletes))] = @ \ {key}]
            ELSE reg' = reg /\ Fails(CouldNotDelete)
       ELSE reg' = reg

\* C23: a step of the recursive deletion that opens a key keeps the first of
\* the 64-bit, 32-bit and default views under which the key opens; when it
\* opens under none, the key is handed to no deletion, the registry is left as
\* it is and the key (the item, for the key of the leftover) fails; a step
\* that deletes a key removes it from the first of the three views under which
\* the deletion succeeds and from no other; when none succeeds the registry is
\* left as it is and the item fails with 'Could not delete registry key'.
C23_ViewOrder == [][\A c \in Calls : C23_Step(c)]_vars

\* A key was removed under the 32-bit view after the 64-bit view refused, and
\* clean() returned.
C23_Witness ==
  /\ cl["c1"].pc = "done"
  /\ regcfg.redirected
  /\ \E i \in 1..Len(cl["c1"].removed) :
       /\ cl["c1"].removed[i][1] = "reg"
       /\ cl["c1"].removed[i][2] = "v32"
       /\ cl["c1"].removed[i][3] \in reg["v64"]


\* The keys of the activations of the recursive deletion that are inside
\* their "with" block.
KeysBeingEnumerated(s) ==
  {<<s.stack[i].hive, s.stack[i].path>> :
     i \in {j \in 1..Len(s.stack) : s.stack[j].phase = "enum"}}

KeysBeingScanned(s) ==
  {<<s.stack[i].hive, s.stack[i].key_path>> : i \in 1..Len(s.stack)}

\* C24: a call of clean() holds a registry handle open only inside the
\* recursive deletion, and then exactly the handles of the activations that
\* are enumerating their key: none is open when the call is between two items
\* or has returned, whatever failed, and none is open on a key whose deletion
\* is about to be attempted; a call of scan() holds handles only in the
\* registry pass, exactly those of the activations on its stack, and none
\* once the pass is over or an exception has ended the walk of a base key.
C24_HandlesScoped ==
  \A c \in Calls :
    /\ cl[c].pc # "reg" => cl[c].handles = {}
    /\ cl[c].pc = "reg" =>
         /\ cl[c].handles = KeysBeingEnumerated(cl[c])
         /\ \A i \in 1..Len(cl[c].stack) :
              cl[c].stack[i].phase = "del" =>
                <<cl[c].stack[i].hive, cl[c].stack[i].path>> \notin cl[c].handles
    /\ sc[c].pc # "registry" => sc[c].handles = {}
    /\ sc[c].pc = "registry" => sc[c].handles = KeysBeingScanned(sc[c])

\* clean() has returned after a recursive deletion that opened a key and a
\* subkey of it and failed to delete the key.
C24_Witness ==
  /\ cl["c1"].pc = "done"
  /\ cl["c1"].result.failed_items = 1
  /\ \E e \in cl["c1"].regops : e.op = "DeleteKey" /\ e.key = <<"hklm", <<"k", "a">>>>
  /\ \E e \in cl["c1"].regops : e.op = "DeleteKey" /\ e.key = <<"hklm", <<"k">>>>
  /\ cl["c1"].handles = {}


\* C25: once clean() has returned, every leftover of the list has been counted
\* once, as deleted or as failed: deleted_items + failed_items = total_items,
\* and a leftover of a type other than the four kinds has an entry in errors.
C25_EveryItemCounted ==
  \A c \in Calls :
    LET s == cl[c]
    IN s.pc = "done" =>
         /\ s.result.deleted_items + s.result.failed_items = s.result.total_items
         /\ \A i \in 1..Len(s.leftovers) :
              s.leftovers[i].type \notin Kinds =>
                \E j \in 1..Len(s.result.errors) :
                  s.result.errors[j][1] = s.leftovers[i].path


\* C26: the list a call of scan() returns holds no two leftovers of the same
\* type and path.
C26_NoDuplicates ==
  \A c \in Calls :
    sc[c].pc = "done" =>
      \A i, j \in 1..Len(sc[c].result) :
        (/\ sc[c].result[i].type = sc[c].result[j].type
         /\ sc[c].result[i].path = sc[c].result[j].path) => i = j


\* The log entry e is a backup call that covers the leftover l: backup_files
\* with its path among the paths, or backup_registry_key with its key.
Covers(e, l) ==
  IF l.type = "registry" THEN e.op = "backup_registry_key" /\ e.arg = l.path
  ELSE e.op = "backup_files" /\ \E i \in 1..Len(e.arg) : e.arg[i] = l.path

\* The leftover l has left the machine in the call s.
WasRemoved(s, l) ==
  \E i \in 1..Len(s.removed) :
    IF l.type = "registry"
    THEN s.removed[i][1] = "reg" /\ s.removed[i][3] = KeyOf(l)
    ELSE s.removed[i][1] = "fs" /\ s.removed[i][2] = l.path

\* C27: with backup enabled, every delete call of clean() that removed its
\* leftover from the machine, a Shortcut included, comes after a backup call
\* of the same clean() call that covers the leftover.
C27_BackupCoversDeleted ==
  \A c \in Calls :
    LET s == cl[c]
    IN s.create_backup =>
         \A j \in CallsOf(s.log, "delete") :
           (s.log[j].arg.type \in Kinds /\ WasRemoved(s, s.log[j].arg)) =>
             \E i \in 1..(j - 1) : Covers(s.log[i], s.log[j].arg)

(***************************************************************************)
(* Properties of SystemSnapshot.compare_filesystem.                        *)
(***************************************************************************)
\* The changes reported for one path.
ChangesOf(changes, path) == {i \in 1..Len(changes) : changes[i].path = path}

\* Exactly one change is reported for the path and it is of the given type.
OneChange(changes, path, change_type) ==
  /\ Cardinality(ChangesOf(changes, path)) = 1
  /\ \A i \in ChangesOf(changes, path) : changes[i].change_type = change_type

\* What after.compare_filesystem(before) owes to one path.
Classified(changes, after, before, path) ==
  IF path \in Keys(after) /\ path \notin Keys(before)
    THEN OneChange(changes, path, "added")
  ELSE IF path \notin Keys(after) /\ path \in Keys(before)
    THEN OneChange(changes, path, "deleted")
  ELSE IF path \in Keys(after) /\ Get(after, path) # Get(before, path)
    THEN OneChange(changes, path, "modified")
  ELSE ChangesOf(changes, path) = {}

\* C21: after.compare_filesystem(before) classifies every path exactly once:
\* a path only in after gives one 'added' change, a path in both with a
\* different (size, timestamp) one 'modified' change, a path only in before
\* one 'deleted' change, and a path that is identical in both (or in
\* neither) gives no change.
C21_EveryPathClassifiedOnce ==
  snap.pc = "returned" =>
    \A path \in SnapshotPaths :
      Classified(snap.changes, snap.self_files, snap.other_files, path)

\* The comparison of src/test_phase5.py:66-103 has returned: test1 is
\* unchanged, test2 modified, test3 deleted and test4 added.
C21_Witness ==
  /\ snap.pc = "returned"
  /\ Keys(snap.self_files) = {"test1", "test2", "test4"}
  /\ Keys(snap.other_files) = {"test1", "test2", "test3"}
  /\ Get(snap.self_files, "test1") = Get(snap.other_files, "test1")
  /\ Get(snap.self_files, "test2") # Get(snap.other_files, "test2")
  /\ Len(snap.changes) = 3

(***************************************************************************)
(* Properties of BackgroundMonitor.                                        *)
(***************************************************************************)
\* The loop threads that are checking for new installations.
Checking == {t \in Threads : bg.loops[t] = "check"}

\* C28: BackgroundMonitor runs at most one monitor loop: whatever start()
\* and stop() calls were made, at most one loop thread is executing a check,
\* also when start() follows a stop() whose thread is still asleep in its
\* check interval.
C28_AtMostOneLoop == Cardinality(Checking) <= 1

(***************************************************************************)
(* Properties of BatchUninstaller.uninstall_multiple.                      *)
(***************************************************************************)
\* C29: after uninstall_multiple(programs) returns, every program is counted
\* exactly once: successful + failed = total_programs, also when the scan or
\* the clean of a program raised after its uninstall succeeded.
C29_CountedOnce ==
  batch.pc = "returned" =>
    batch.result.successful + batch.result.failed = batch.result.total_programs

\* The calls made so far for the program at position index.
EventsOf(trace, index) == {i \in 1..Len(trace) : trace[i].index = index}

\* The calls are made program by program, in the order of the list.
InListOrder(b) ==
  /\ \A i \in 1..Len(b.trace) :
       /\ b.trace[i].index \in 1..Len(b.programs)
       /\ b.trace[i].program = b.programs[b.trace[i].index]
  /\ \A i, j \in 1..Len(b.trace) : i < j => b.trace[i].index <= b.trace[j].index
  /\ \A index \in 1..b.index :
       \E i \in EventsOf(b.trace, index) :
         /\ b.trace[i].op = "uninstall"
         /\ \A j \in EventsOf(b.trace, index) : i <= j
         /\ \A j \in EventsOf(b.trace, index) : b.trace[j].op = "uninstall" => j = i

\* A scan comes right after the successful uninstall of the same program.
ScanAfterSuccess(b) ==
  \A i \in 1..Len(b.trace) :
    b.trace[i].op = "scan" =>
      /\ b.scan_leftovers
      /\ i > 1
      /\ b.trace[i - 1].op = "uninstall"
      /\ b.trace[i - 1].index = b.trace[i].index
      /\ b.trace[i - 1].ok

\* A clean comes right after the scan of the same program, when cleaning is
\* requested and the scan returned at least one leftover.
CleanAfterScan(b) ==
  \A i \in 1..Len(b.trace) :
    b.trace[i].op = "clean" =>
      /\ b.clean_leftovers
      /\ i > 1
      /\ b.trace[i - 1].op = "scan"
      /\ b.trace[i - 1].index = b.trace[i].index
      /\ b.trace[i - 1].ok
      /\ b.trace[i - 1].found > 0

\* No scan and no clean for a program whose uninstall failed.
FailedUntouched(b) ==
  \A i, j \in 1..Len(b.trace) :
    b.trace[i].op = "uninstall" /\ ~b.trace[i].ok /\ b.trace[j].index = b.trace[i].index
      => j = i

\* C30: uninstall_multiple processes the programs one after another in list
\* order; the leftover scan of a program runs only after that program's
\* uninstall reported success, the clean only after the scan, only when
\* cleaning is requested and the scan found at least one leftover; a program
\* whose uninstall failed has no leftovers scanned or deleted.
C30_UninstallScanClean ==
  /\ InListOrder(batch)
  /\ ScanAfterSuccess(batch)
  /\ CleanAfterScan(batch)
  /\ FailedUntouched(batch)

\* A batch of at least two programs has returned: the uninstall of one failed
\* and the leftovers of another were scanned and cleaned.
C30_Witness ==
  /\ batch.pc = "returned"
  /\ Len(batch.programs) >= 2
  /\ \E i, j \in 1..Len(batch.trace) :
       /\ batch.trace[i].op = "uninstall" /\ ~batch.trace[i].ok
       /\ batch.trace[j].op = "clean" /\ batch.trace[j].ok
       /\ i < j

====
